---- MODULE Spec2Model ----
(***************************************************************************)
(* A model of the C-36 Grid procedural content generator (gameLogic) and   *)
(* of the App state machine that consumes it.                              *)
(*                                                                         *)
(* Numbers.  JavaScript numbers are IEEE doubles; the model keeps every    *)
(* quantity as an exact integer in a stated unit:                          *)
(*   - a 32-bit word is a pair <<hi, lo>> of 16-bit halves (the model      *)
(*     checker's integers are 32-bit signed, so a word does not fit one);  *)
(*   - a PRNG draw is the word u, standing for the double u / 2^32, which  *)
(*     is exact in a double;                                               *)
(*   - profile ranges and generated visual parameters are in thousandths;  *)
(*   - a collector's score is in units of 1/9090 (ScoreDen).               *)
(***************************************************************************)
EXTENDS Integers, Sequences, FiniteSets, TLC

VARIABLES
    clock,  \* Date.now(), in seconds since the model's start
    args,   \* the inputs of the function under check
    calls,  \* the calls made on args so far: <<[at, out], ...>>
    \* The state of App
    view, hp, balance, inventory, visited, detectorExpiry, sonarExpiry,
    immunityExpiry, xp, lastDiscoveredArtifact, now, pos, cell, cellType,
    visitedRef, \* the ref the effects read the visited map from
    showDev     \* InventoryView's showDev state while it is mounted

probeVars == <<args, calls>>

appVars ==
    <<view, hp, balance, inventory, visited, detectorExpiry, sonarExpiry,
      immunityExpiry, xp, lastDiscoveredArtifact, now, pos, cell, cellType,
      visitedRef, showDev>>

vars == <<clock, probeVars, appVars>>

\* Body(v), with v evaluated once: a bound variable holds a value, where a
\* LET definition or an operator argument is evaluated at each of its uses.
With(v, Body(_)) == CHOOSE y \in {Body(x) : x \in {v}} : TRUE

\* ------------------------------------------------------------------------
\* 32-bit word arithmetic (the semantics of ^, |, >>>, + and Math.imul)
\* ------------------------------------------------------------------------

Half == 2 ^ 16

RECURSIVE XorBits(_, _, _)
XorBits(a, b, n) ==
    IF n = 0 THEN 0
    ELSE ((a + b) % 2) + 2 * XorBits(a \div 2, b \div 2, n - 1)

RECURSIVE OrBits(_, _, _)
OrBits(a, b, n) ==
    IF n = 0 THEN 0
    ELSE (IF a % 2 = 1 \/ b % 2 = 1 THEN 1 ELSE 0)
         + 2 * OrBits(a \div 2, b \div 2, n - 1)

\* Nibble tables, evaluated once.
XorTab == [a \in 0..15 |-> [b \in 0..15 |-> XorBits(a, b, 4)]]
OrTab == [a \in 0..15 |-> [b \in 0..15 |-> OrBits(a, b, 4)]]

Xor16(a, b) ==
    XorTab[a % 16][b % 16]
    + 16 * XorTab[(a \div 16) % 16][(b \div 16) % 16]
    + 256 * XorTab[(a \div 256) % 16][(b \div 256) % 16]
    + 4096 * XorTab[a \div 4096][b \div 4096]

Or16(a, b) ==
    OrTab[a % 16][b % 16]
    + 16 * OrTab[(a \div 16) % 16][(b \div 16) % 16]
    + 256 * OrTab[(a \div 256) % 16][(b \div 256) % 16]
    + 4096 * OrTab[a \div 4096][b \div 4096]

\* a ^ b
Xor32(a, b) == <<Xor16(a[1], b[1]), Xor16(a[2], b[2])>>

\* a | k for a small constant k < 2^16
OrLow(a, k) == <<a[1], Or16(a[2], k)>>

Pow2(n) == 2 ^ n

\* a >>> n for 0 < n < 16
Shr(a, n) ==
    <<a[1] \div Pow2(n),
      (a[2] \div Pow2(n)) + (a[1] % Pow2(n)) * Pow2(16 - n)>>

\* (a + b) mod 2^32
Add32(a, b) ==
    LET lo == a[2] + b[2]
    IN  <<(a[1] + b[1] + lo \div Half) % Half, lo % Half>>

\* (a * b) mod 2^16 for 16-bit a, b, without leaving 31 bits
MulMod16(a, b) ==
    ((a % 256) * b + (((a \div 256) * b) % 256) * 256) % Half

\* Math.imul(a, b): the low 32 bits of the product
Imul(a, b) ==
    LET p0 == (a[2] % 256) * b[2]
        p1 == (a[2] \div 256) * b[2]
        low == p0 + (p1 % 256) * 256
        carry == low \div Half + p1 \div 256
    IN  <<(carry + MulMod16(a[1], b[2]) + MulMod16(a[2], b[1])) % Half,
          low % Half>>

\* ToUint32 of a non-negative integer below 2^31
Word(n) == <<n \div Half, n % Half>>

\* ------------------------------------------------------------------------
\* Enumerations and weights (types.ts)
\* ------------------------------------------------------------------------

\* A missing array element or record field (JavaScript's undefined).
Undefined == "undefined"

CoinMetals ==
    {"Copper", "Nickel", "Zinc", "Brass", "Aluminium", "Bronze", "Silver",
     "Gold", "Platinum"}

CoinConditions == {"Poor", "Good", "Fine", "Very Fine", "Near Mint", "Mint"}

\* Object.values(CoinBorder), in declaration order
CoinBorders == <<"Thin", "Standard", "Wide">>

\* Object.values(CoinSize), in declaration order
CoinSizes == <<"Tiny (10mm)", "Small (20mm)", "Medium (30mm)", "Large (40mm)">>

CoinPatterns ==
    {"Geometric", "Floral", "Imperial", "Abstract", "Radial", "Grid", "Dots",
     "Waves", "Crosses", "Stars", "Circles", "Triangles", "Hexagons",
     "Diamonds", "Scales", "Bricks", "Maze", "Spiral", "Rings", "Checks",
     "Stripes", "Zigzag", "Chevron", "Mosaic", "Target", "Sunburst", "Moon",
     "Shield", "Crown", "Anchor", "Leaf", "Tree", "Mountain", "Ocean", "Wind",
     "Fire"}

\* Weights that put Gold above Platinum (10.5 against 10.0), doubled
METAL_WEIGHTS_X2_GoldOnTop ==
    [m \in CoinMetals |->
        CASE m = "Copper" -> 2 [] m = "Nickel" -> 4 [] m = "Zinc" -> 6
          [] m = "Brass" -> 8 [] m = "Aluminium" -> 10 [] m = "Bronze" -> 13
          [] m = "Silver" -> 16 [] m = "Gold" -> 21 [] m = "Platinum" -> 20]

\* METAL_WEIGHTS, doubled so that 6.5 and 9.5 are integers
METAL_WEIGHTS_X2 ==
    [Copper |-> 2, Nickel |-> 4, Zinc |-> 6, Brass |-> 8, Aluminium |-> 10,
     Bronze |-> 13, Silver |-> 16, Gold |-> 19, Platinum |-> 20]

CONDITION_SCORES ==
    [c \in CoinConditions |->
        CASE c = "Poor" -> 1
          [] c = "Good" -> 2
          [] c = "Fine" -> 3
          [] c = "Very Fine" -> 4
          [] c = "Near Mint" -> 5
          [] c = "Mint" -> 6]

\* ------------------------------------------------------------------------
\* Design profiles (gameLogic.ts, DesignWorkbench.tsx)
\* ------------------------------------------------------------------------

\* Array(n).fill(v)
Fill(n, v) == [i \in 1..n |-> v]

\* A table with a second Platinum entry in place of a Copper one
BASE_METALS_WEIGHTED_TwoPlatinum ==
    Fill(2, "Platinum") \o Fill(2, "Gold") \o Fill(5, "Silver")
    \o Fill(8, "Bronze") \o Fill(10, "Aluminium") \o Fill(12, "Brass")
    \o Fill(15, "Zinc") \o Fill(20, "Nickel") \o Fill(26, "Copper")

BASE_METALS_WEIGHTED ==
    Fill(1, "Platinum") \o Fill(2, "Gold") \o Fill(5, "Silver")
    \o Fill(8, "Bronze") \o Fill(10, "Aluminium") \o Fill(12, "Brass")
    \o Fill(15, "Zinc") \o Fill(20, "Nickel") \o Fill(27, "Copper")

Range(lo, hi) == [min |-> lo, max |-> hi]

\* The preset with years up to the present
GENERATOR_ANCIENT_ToPresent ==
    [allowedMetals |-> BASE_METALS_WEIGHTED,
     yearRange |-> Range(-500, 2025),
     allowedPatterns |->
        <<"Geometric", "Stars", "Circles", "Bricks", "Spiral", "Rings",
          "Stripes", "Target", "Sunburst", "Moon", "Shield", "Crown",
          "Anchor", "Tree", "Ocean", "Fire">>,
     shapeJitter |-> Range(800, 5700),
     petalCount |-> Range(20000, 24000),
     petalLength |-> Range(400, 710),
     petalWidth |-> Range(550, 590),
     petalSharpness |-> Range(1500, 2000),
     centerRadius |-> Range(280, 600),
     customBaseColor |-> Undefined,
     customShineColor |-> Undefined,
     customDarkColor |-> Undefined]

\* yearRange is in years; the six visual ranges are in thousandths.
GENERATOR_ANCIENT ==
    [allowedMetals |-> BASE_METALS_WEIGHTED,
     yearRange |-> Range(-500, 1800),
     allowedPatterns |->
        <<"Geometric", "Stars", "Circles", "Bricks", "Spiral", "Rings",
          "Stripes", "Target", "Sunburst", "Moon", "Shield", "Crown",
          "Anchor", "Tree", "Ocean", "Fire">>,
     shapeJitter |-> Range(800, 5700),
     petalCount |-> Range(20000, 24000),
     petalLength |-> Range(400, 710),
     petalWidth |-> Range(550, 590),
     petalSharpness |-> Range(1500, 2000),
     centerRadius |-> Range(280, 600),
     customBaseColor |-> Undefined,
     customShineColor |-> Undefined,
     customDarkColor |-> Undefined]

\* The workbench's starting profile.
DEFAULT_PROFILE ==
    [allowedMetals |-> <<"Gold", "Silver", "Bronze">>,
     yearRange |-> Range(1200, 1800),
     allowedPatterns |-> <<"Floral", "Geometric", "Imperial">>,
     shapeJitter |-> Range(0, 2000),
     petalCount |-> Range(4000, 8000),
     petalLength |-> Range(400, 800),
     petalWidth |-> Range(200, 500),
     petalSharpness |-> Range(500, 1500),
     centerRadius |-> Range(150, 300),
     customBaseColor |-> Undefined,
     customShineColor |-> Undefined,
     customDarkColor |-> Undefined]

\* ------------------------------------------------------------------------
\* Seeded PRNG
\* ------------------------------------------------------------------------

\* 0x6D2B79F5
SeedIncrement == <<27947, 31221>>

\* A generator that keeps a counter of the draws made so far
seededRandom_Stateful(seed) ==
    LET Step1(t) == Imul(Xor32(t, Shr(t, 15)), OrLow(t, 1))
        Mixed(t) == Imul(Xor32(t, Shr(t, 7)), OrLow(t, 61))
        Step2(t) == With(Mixed(t), LAMBDA m : Xor32(t, Add32(t, m)))
        Step3(t) == Xor32(t, Shr(t, 14))
    IN  With(Add32(Word(seed + Len(calls)), SeedIncrement), LAMBDA t0 :
        With(Step1(t0), LAMBDA t1 :
        With(Step2(t1), LAMBDA t2 : Step3(t2))))

\* seededRandom(seed), as the word u of the result u / 4294967296
seededRandom(seed) ==
    LET Step1(t) == Imul(Xor32(t, Shr(t, 15)), OrLow(t, 1))
        Mixed(t) == Imul(Xor32(t, Shr(t, 7)), OrLow(t, 61))
        Step2(t) == With(Mixed(t), LAMBDA m : Xor32(t, Add32(t, m)))
        Step3(t) == Xor32(t, Shr(t, 14))
    IN  With(Add32(Word(seed), SeedIncrement), LAMBDA t0 :
        With(Step1(t0), LAMBDA t1 :
        With(Step2(t1), LAMBDA t2 : Step3(t2))))

\* Math.floor(r * n) for the draw r = u / 2^32 and an integer 0 <= n < 2^15
FloorTimes(u, n) == (u[1] * n + (u[2] * n) \div Half) \div Half

\* r > k / 10 for the draw r = u / 2^32
AboveTenths(u, k) ==
    LET q == 10 * u[1] + (10 * u[2]) \div Half
    IN  \/ q \div Half > k
        \/ q \div Half = k /\ (q % Half # 0 \/ (10 * u[2]) % Half # 0)

\* ------------------------------------------------------------------------
\* Coin DNA generator
\* ------------------------------------------------------------------------

Abs(n) == IF n < 0 THEN -n ELSE n

\* Math.round(v): the nearest integer, halves towards +infinity
RoundHalfUp(num, den) == (2 * num + den) \div (2 * den)

\* A seed that reads the clock
CoinSeed_Clock(cellX, cellY) == Abs(cellX * 49157 + cellY * 98953) + clock

\* A seed that takes the absolute value of the row term alone
CoinSeed_RowAbs(cellX, cellY) == Abs(cellX * 49157 + Abs(cellY * 98953))

\* The seed of generateCoinFromProfile
CoinSeed(cellX, cellY) == Abs(cellX * 49157 + cellY * 98953)

\* A draw that reads the clock
rand_Clock(seed, offset) == seededRandom(seed + offset + clock)

\* rand(offset) of generateCoinFromProfile
rand(seed, offset) == seededRandom(seed + offset)

\* A pick that scales the draw by one more than the array's length
pick_PastEnd(arr, seed, offset) ==
    With(rand(seed, offset), LAMBDA u :
        LET i == FloorTimes(u, Len(arr) + 1)
        IN  IF i + 1 \in DOMAIN arr THEN arr[i + 1] ELSE Undefined)

\* pick(arr, offset): arr[Math.floor(rand(offset) * arr.length)]; an index
\* outside the array reads undefined.
pick(arr, seed, offset) ==
    With(rand(seed, offset), LAMBDA u :
        LET i == FloorTimes(u, Len(arr))
        IN  IF i + 1 \in DOMAIN arr THEN arr[i + 1] ELSE Undefined)

\* val(r, offset, step): v = r.min + rand(offset) * (r.max - r.min), then
\* Math.round(v / step) * step.  With r and step integers of one unit and
\* 0 <= r.max - r.min < 2^15, Math.round(v / step) is
\* floor((2 * r.min + step + floor(2 * u * (r.max - r.min) / 2^32)) / (2 * step)).
val(r, seed, offset, step) ==
    With(rand(seed, offset), LAMBDA u :
        LET d == r.max - r.min
            twice == (u[1] * d + (u[2] * d) \div Half) \div (Half \div 2)
        IN  ((2 * r.min + step + twice) \div (2 * step)) * step)

\* One thousandth is the unit of the visual ranges.
Unit == 1000

\* val's default step, 0.01
DefaultStep == 10

\* A condition branch that tests the younger bracket first
ConditionFor_YoungFirst(age, condRoll) ==
    IF age > 200
    THEN (IF AboveTenths(condRoll, 7) THEN "Very Fine" ELSE "Good")
    ELSE IF age > 1000
    THEN (IF AboveTenths(condRoll, 8) THEN "Fine" ELSE "Poor")
    ELSE (IF AboveTenths(condRoll, 9) THEN "Mint" ELSE "Near Mint")

\* The condition branch of generateCoinFromProfile
ConditionFor(age, condRoll) ==
    IF age > 1000
    THEN (IF AboveTenths(condRoll, 8) THEN "Fine" ELSE "Poor")
    ELSE IF age > 200
    THEN (IF AboveTenths(condRoll, 7) THEN "Very Fine" ELSE "Good")
    ELSE (IF AboveTenths(condRoll, 9) THEN "Mint" ELSE "Near Mint")

\* A generator that draws the border at the offset of the size
generateCoinFromProfile_SharedOffset(cellX, cellY, profile) ==
    LET seed == CoinSeed(cellX, cellY)
        metal == pick(profile.allowedMetals, seed, 1)
        year == val(profile.yearRange, seed, 2, 1)
        pattern == pick(profile.allowedPatterns, seed, 3)
        age == 2025 - year
        condRoll == rand(seed, 4)
        condition == ConditionFor(age, condRoll)
        size == CoinSizes[FloorTimes(rand(seed, 5), Len(CoinSizes)) + 1]
        border == CoinBorders[FloorTimes(rand(seed, 5), Len(CoinBorders)) + 1]
        visualOverrides ==
            [shapeJitter |-> val(profile.shapeJitter, seed, 10, 100),
             petalCount |->
                RoundHalfUp(val(profile.petalCount, seed, 11, Unit), Unit) * Unit,
             petalLength |-> val(profile.petalLength, seed, 12, DefaultStep),
             petalWidth |-> val(profile.petalWidth, seed, 13, DefaultStep),
             petalSharpness |-> val(profile.petalSharpness, seed, 14, DefaultStep),
             centerRadius |-> val(profile.centerRadius, seed, 15, DefaultStep),
             customBaseColor |-> profile.customBaseColor,
             customShineColor |-> profile.customShineColor,
             customDarkColor |-> profile.customDarkColor]
    IN  [metal |-> metal,
         year |-> year,
         condition |-> condition,
         border |-> border,
         size |-> size,
         pattern |-> pattern,
         visualOverrides |-> visualOverrides]

\* A generator whose size draw moves with the number of allowed metals
generateCoinFromProfile_SizeByProfile(cellX, cellY, profile) ==
    LET seed == CoinSeed(cellX, cellY)
        metal == pick(profile.allowedMetals, seed, 1)
        year == val(profile.yearRange, seed, 2, 1)
        pattern == pick(profile.allowedPatterns, seed, 3)
        age == 2025 - year
        condRoll == rand(seed, 4)
        condition == ConditionFor(age, condRoll)
        size == CoinSizes[FloorTimes(rand(seed, 5 + Len(profile.allowedMetals)), Len(CoinSizes)) + 1]
        border == CoinBorders[FloorTimes(rand(seed, 6), Len(CoinBorders)) + 1]
        visualOverrides ==
            [shapeJitter |-> val(profile.shapeJitter, seed, 10, 100),
             petalCount |->
                RoundHalfUp(val(profile.petalCount, seed, 11, Unit), Unit) * Unit,
             petalLength |-> val(profile.petalLength, seed, 12, DefaultStep),
             petalWidth |-> val(profile.petalWidth, seed, 13, DefaultStep),
             petalSharpness |-> val(profile.petalSharpness, seed, 14, DefaultStep),
             centerRadius |-> val(profile.centerRadius, seed, 15, DefaultStep),
             customBaseColor |-> profile.customBaseColor,
             customShineColor |-> profile.customShineColor,
             customDarkColor |-> profile.customDarkColor]
    IN  [metal |-> metal,
         year |-> year,
         condition |-> condition,
         border |-> border,
         size |-> size,
         pattern |-> pattern,
         visualOverrides |-> visualOverrides]

\* generateCoinFromProfile(cellX, cellY, profile)
generateCoinFromProfile(cellX, cellY, profile) ==
    LET seed == CoinSeed(cellX, cellY)
        metal == pick(profile.allowedMetals, seed, 1)
        year == val(profile.yearRange, seed, 2, 1)
        pattern == pick(profile.allowedPatterns, seed, 3)
        age == 2025 - year
        condRoll == rand(seed, 4)
        condition == ConditionFor(age, condRoll)
        size == CoinSizes[FloorTimes(rand(seed, 5), Len(CoinSizes)) + 1]
        border == CoinBorders[FloorTimes(rand(seed, 6), Len(CoinBorders)) + 1]
        visualOverrides ==
            [shapeJitter |-> val(profile.shapeJitter, seed, 10, 100),
             petalCount |->
                RoundHalfUp(val(profile.petalCount, seed, 11, Unit), Unit) * Unit,
             petalLength |-> val(profile.petalLength, seed, 12, DefaultStep),
             petalWidth |-> val(profile.petalWidth, seed, 13, DefaultStep),
             petalSharpness |-> val(profile.petalSharpness, seed, 14, DefaultStep),
             centerRadius |-> val(profile.centerRadius, seed, 15, DefaultStep),
             customBaseColor |-> profile.customBaseColor,
             customShineColor |-> profile.customShineColor,
             customDarkColor |-> profile.customDarkColor]
    IN  [metal |-> metal,
         year |-> year,
         condition |-> condition,
         border |-> border,
         size |-> size,
         pattern |-> pattern,
         visualOverrides |-> visualOverrides]

\* ------------------------------------------------------------------------
\* Scoring and valuation
\* ------------------------------------------------------------------------

\* The raw score is kept in units of 1 / RawDen: RawDen is the least common
\* denominator of the metal weights (halves), of 10 / 2525 and of 10 / 6.
RawDen == 2 * 505 * 3

\* The score is kept in units of 1 / ScoreDen (rawScore / 30 * 10).
ScoreDen == 3 * RawDen

\* A score whose age term grows with the year
calculateCoinScore_YoungerScoresMore(coin) ==
    LET metalScore == METAL_WEIGHTS_X2[coin.metal] * (RawDen \div 2)
        ageDiff == coin.year - (-500)
        maxAgeDiff == 2025 - (-500)
        ageScore == (ageDiff * 10 * RawDen) \div maxAgeDiff
        conditionScore == CONDITION_SCORES[coin.condition]
        normalizedCondition == (conditionScore * 10 * RawDen) \div 6
        rawScore == metalScore + ageScore + normalizedCondition
    IN  rawScore * ((10 * ScoreDen) \div (30 * RawDen))

\* A score whose largest age leaves out the years before the year 0
calculateCoinScore_NoBC(coin) ==
    LET metalScore == METAL_WEIGHTS_X2[coin.metal] * (RawDen \div 2)
        ageDiff == 2025 - coin.year
        maxAgeDiff == 2025
        ageScore == (ageDiff * 10 * RawDen) \div maxAgeDiff
        conditionScore == CONDITION_SCORES[coin.condition]
        normalizedCondition == (conditionScore * 10 * RawDen) \div 6
        rawScore == metalScore + ageScore + normalizedCondition
    IN  rawScore * ((10 * ScoreDen) \div (30 * RawDen))

\* calculateCoinScore(coin), in units of 1 / ScoreDen
calculateCoinScore(coin) ==
    LET metalScore == METAL_WEIGHTS_X2[coin.metal] * (RawDen \div 2)
        currentYear == 2025
        ageDiff == currentYear - coin.year
        maxAgeDiff == 2025 - (-500)
        ageScore == (ageDiff * 10 * RawDen) \div maxAgeDiff
        conditionScore == CONDITION_SCORES[coin.condition]
        normalizedCondition == (conditionScore * 10 * RawDen) \div 6
        rawScore == metalScore + ageScore + normalizedCondition
    IN  rawScore * ((10 * ScoreDen) \div (30 * RawDen))

\* Fixed-point numbers for Math.pow: four limbs of four decimal digits,
\* <<a, b, c, d>> standing for a + b / 10^4 + c / 10^8 + d / 10^12.
Limb == 10 ^ 4

Limbs == 4

\* 10 ^ (1 / 2^i) for i = 1 .. 36, rounded down to twelve decimals
Pow10Roots ==
   <<<<3, 1622, 7766, 168>>,
     <<1, 7782, 7941, 38>>,
     <<1, 3335, 2143, 2163>>,
     <<1, 1547, 8198, 4689>>,
     <<1, 746, 782, 8321>>,
     <<1, 366, 3292, 8437>>,
     <<1, 181, 5172, 1718>>,
     <<1, 90, 3504, 4841>>,
     <<1, 45, 736, 4254>>,
     <<1, 22, 5114, 8292>>,
     <<1, 11, 2494, 1399>>,
     <<1, 5, 6231, 2602>>,
     <<1, 2, 8111, 6787>>,
     <<1, 1, 4054, 8516>>,
     <<1, 0, 7027, 1789>>,
     <<1, 0, 3513, 5277>>,
     <<1, 0, 1756, 7484>>,
     <<1, 0, 878, 3703>>,
     <<1, 0, 439, 1842>>,
     <<1, 0, 219, 5918>>,
     <<1, 0, 109, 7958>>,
     <<1, 0, 54, 8979>>,
     <<1, 0, 27, 4489>>,
     <<1, 0, 13, 7244>>,
     <<1, 0, 6, 8622>>,
     <<1, 0, 3, 4311>>,
     <<1, 0, 1, 7155>>,
     <<1, 0, 0, 8577>>,
     <<1, 0, 0, 4288>>,
     <<1, 0, 0, 2144>>,
     <<1, 0, 0, 1072>>,
     <<1, 0, 0, 536>>,
     <<1, 0, 0, 268>>,
     <<1, 0, 0, 134>>,
     <<1, 0, 0, 67>>,
     <<1, 0, 0, 33>>>>

\* The terms a[i] * b[k + 1 - i], i = lo .. hi, of column k of the schoolbook
\* product a * b (weight Limb ^ (1 - k)), summed
RECURSIVE ColumnSum(_, _, _, _, _)
ColumnSum(a, b, k, lo, hi) ==
    IF lo > hi THEN 0
    ELSE a[lo] * b[k + 1 - lo] + ColumnSum(a, b, k, lo + 1, hi)

Column(a, b, k) ==
    ColumnSum(a, b, k,
              IF k > Limbs THEN k + 1 - Limbs ELSE 1,
              IF k > Limbs THEN Limbs ELSE k)

\* a * b rounded down to four limbs (the product stays below 10 ^ 4)
FixMul(a, b) ==
    LET c7 == Column(a, b, 7)
        c6 == Column(a, b, 6) + c7 \div Limb
        c5 == Column(a, b, 5) + c6 \div Limb
        c4 == Column(a, b, 4) + c5 \div Limb
        c3 == Column(a, b, 3) + c4 \div Limb
        c2 == Column(a, b, 2) + c3 \div Limb
        c1 == Column(a, b, 1) + c2 \div Limb
    IN  <<c1, c2 % Limb, c3 % Limb, c4 % Limb>>

\* 10 ^ (r / den) for 0 <= r < den, from the binary expansion of r / den:
\* bit i of the expansion multiplies the accumulator by 10 ^ (1 / 2^i).  The
\* accumulator stays in [1, 10).
RECURSIVE Pow10Frac(_, _, _, _)
Pow10Frac(r, den, i, acc) ==
    IF i > Len(Pow10Roots) \/ r = 0 THEN acc
    ELSE IF 2 * r >= den
         THEN With(FixMul(acc, Pow10Roots[i]), LAMBDA product :
                  Pow10Frac(2 * r - den, den, i + 1, product))
         ELSE Pow10Frac(2 * r, den, i + 1, acc)

\* Math.floor(Math.pow(10, num / den)) for 0 <= num < 7 * den.  The twelve
\* decimals decide the floor exactly for every score of a coin dated
\* -500 .. 2025 (num = 0 .. 90900 over den = 15150).
FloorPow10(num, den) ==
    LET k == num \div den
    IN  With(Pow10Frac(num % den, den, 1, <<1, 0, 0, 0>>), LAMBDA f :
            IF k >= 4
            THEN f[1] * 10 ^ k + (f[2] * 10 ^ (k - 4))
                 + (f[3] \div 10 ^ (8 - k))
            ELSE f[1] * 10 ^ k + (f[2] \div 10 ^ (4 - k)))

\* score * 0.6 in doubles: where the product is mathematically 2 or 4
\* (score 10/3 or 20/3) the double nearest the score is below it
\* (3.333333333333333, 6.666666666666666) and the product is
\* 1.9999999999999998 or 3.9999999999999996; the other integer exponents
\* (0, 1, 3, 5, 6) are reached exactly.
ExponentBelowInteger(score) ==
    score \in {(10 * ScoreDen) \div 3, (20 * ScoreDen) \div 3}

\* A curve with the exponent score * 0.5
ValueOfScore_HalfExponent(score) == FloorPow10(5 * score, 10 * ScoreDen)

\* Math.floor(Math.pow(10, score * 0.6)) for a score in units of 1 / ScoreDen
ValueOfScore(score) ==
    LET exact == FloorPow10(6 * score, 10 * ScoreDen)
    IN  IF ExponentBelowInteger(score) THEN exact - 1 ELSE exact

calculateCoinValue(coin) ==
    With(calculateCoinScore(coin), LAMBDA score : ValueOfScore(score))

\* ------------------------------------------------------------------------
\* Artifact factory
\* ------------------------------------------------------------------------

\* A region hash taken modulo two types while the list holds one
getArtifactTypeForRegion_TwoTypes(cellX, cellY) ==
    LET REGION_SIZE == 50
        regionX == cellX \div REGION_SIZE
        regionY == cellY \div REGION_SIZE
        availableTypes == <<"COIN">>
        hash == Abs(regionX * 31 + regionY * 17) % 2
    IN  IF hash + 1 \in DOMAIN availableTypes
        THEN availableTypes[hash + 1] ELSE Undefined

getArtifactTypeForRegion(cellX, cellY) ==
    LET REGION_SIZE == 50
        regionX == cellX \div REGION_SIZE
        regionY == cellY \div REGION_SIZE
        availableTypes == <<"COIN">>
        hash == Abs(regionX * 31 + regionY * 17) % Len(availableTypes)
    IN  availableTypes[hash + 1]

\* A factory that prices the coin on a curve of its own, 10 ^ (score * 0.5)
generateArtifact_OwnCurve(cellX, cellY) ==
    With(generateCoinFromProfile(cellX, cellY, GENERATOR_ANCIENT),
         LAMBDA data :
             [id |-> <<"art", cellX, cellY, clock>>,
              type |-> getArtifactTypeForRegion(cellX, cellY),
              foundAt |-> [x |-> cellX, y |-> cellY],
              foundDate |-> clock,
              data |-> data,
              rarityScore |-> calculateCoinScore(data),
              monetaryValue |->
                  FloorPow10(5 * calculateCoinScore(data), 10 * ScoreDen)])

\* generateArtifact(cellX, cellY); the template string of the id is kept as
\* the tuple of its parts.
generateArtifact(cellX, cellY) ==
    LET type == getArtifactTypeForRegion(cellX, cellY)
        id == <<"art", cellX, cellY, clock>>
        foundAt == [x |-> cellX, y |-> cellY]
        foundDate == clock
    IN  With(generateCoinFromProfile(cellX, cellY, GENERATOR_ANCIENT),
             LAMBDA data :
                 LET rarityScore == calculateCoinScore(data)
                     monetaryValue == calculateCoinValue(data)
                 IN  [id |-> id,
                      type |-> type,
                      foundAt |-> foundAt,
                      foundDate |-> foundDate,
                      data |-> data,
                      rarityScore |-> rarityScore,
                      monetaryValue |-> monetaryValue])

\* ------------------------------------------------------------------------
\* Cell classification
\* ------------------------------------------------------------------------

CellTypes == {"EMPTY", "SUPERMARKET", "TOOL_SHOP", "FOOD", "COIN", "HOSTILE"}

\* Bands with the thresholds compared strictly
CellTypeOfScore_Strict(masterScore, cellX, cellY) ==
    IF masterScore > 90 THEN "HOSTILE"
    ELSE IF masterScore > 80 THEN "COIN"
    ELSE IF masterScore > 70 THEN "FOOD"
    ELSE IF masterScore = 59
         THEN LET subHash == Abs(cellX + cellY) % 2
              IN  IF subHash = 0 THEN "SUPERMARKET" ELSE "TOOL_SHOP"
    ELSE "EMPTY"

\* A shop variant chosen by the column alone
CellTypeOfScore_ByColumn(masterScore, cellX, cellY) ==
    IF masterScore >= 90 THEN "HOSTILE"
    ELSE IF masterScore >= 80 THEN "COIN"
    ELSE IF masterScore >= 70 THEN "FOOD"
    ELSE IF masterScore = 59
         THEN LET subHash == Abs(cellX) % 2
              IN  IF subHash = 0 THEN "SUPERMARKET" ELSE "TOOL_SHOP"
    ELSE "EMPTY"

\* Bands that leave the rolls 60 .. 69 without a category
CellTypeOfScore_Gap(masterScore, cellX, cellY) ==
    IF masterScore >= 90 THEN "HOSTILE"
    ELSE IF masterScore >= 80 THEN "COIN"
    ELSE IF masterScore >= 70 THEN "FOOD"
    ELSE IF masterScore = 59
         THEN LET subHash == Abs(cellX + cellY) % 2
              IN  IF subHash = 0 THEN "SUPERMARKET" ELSE "TOOL_SHOP"
    ELSE IF masterScore < 59 THEN "EMPTY"
    ELSE Undefined

\* The branches of getCellType on its roll masterScore
CellTypeOfScore(masterScore, cellX, cellY) ==
    IF masterScore >= 90 THEN "HOSTILE"
    ELSE IF masterScore >= 80 THEN "COIN"
    ELSE IF masterScore >= 70 THEN "FOOD"
    ELSE IF masterScore = 59
         THEN LET subHash == Abs(cellX + cellY) % 2
              IN  IF subHash = 0 THEN "SUPERMARKET" ELSE "TOOL_SHOP"
    ELSE "EMPTY"

\* masterScore of getCellType for the cells x = 12 .. 24, y = 14 .. 19 around
\* the start cell (16, 16): Math.floor(frac(Math.sin(x * 12.9898 + y * 78.233)
\* * 43758.5453) * 100) evaluated in doubles, one row per y.
MasterScoreRows ==
   <<<< 4, 10,  4, 68, 40, 18, 34,  1, 60, 52, 73, 14, 60>>,
     <<62, 28, 52, 94, 75, 64, 96, 72, 65, 61, 53, 39, 38>>,
     <<34, 90, 93, 23, 11, 84, 89, 48, 59, 72, 25, 79, 16>>,
     <<55, 49, 96, 98, 50, 53,  1, 76, 33, 83, 76, 10, 58>>,
     <<50, 48, 44, 76, 11, 42,  9, 20, 94, 76, 54, 97, 28>>,
     <<90, 52, 70, 98, 61, 24, 77, 65, 50, 91, 95, 82, 59>>>>

MasterScore(cellX, cellY) == MasterScoreRows[cellY - 13][cellX - 11]

getCellType(cellX, cellY) ==
    CellTypeOfScore(MasterScore(cellX, cellY), cellX, cellY)

\* ------------------------------------------------------------------------
\* Inputs of the function checks
\* ------------------------------------------------------------------------

\* Cell coordinates -MaxCoord .. MaxCoord
MaxCoord == 5

Coords == (0 - MaxCoord)..MaxCoord

\* Calls of one function on one input
MaxCalls == 2

\* Seconds the clock runs
MaxClock == 2

\* Profiles a designer can author in the workbench: the preset, the
\* workbench's default, a single-metal profile, profiles with every metal or
\* every pattern deselected, a profile whose petalLength bounds are typed
\* in thousandths, and a profile of recent years.
Profiles ==
    [ANCIENT |-> GENERATOR_ANCIENT,
     DEFAULT |-> DEFAULT_PROFILE,
     COPPER |-> [GENERATOR_ANCIENT EXCEPT !.allowedMetals = <<"Copper">>],
     NO_METAL |-> [DEFAULT_PROFILE EXCEPT !.allowedMetals = <<>>],
     NO_PATTERN |-> [DEFAULT_PROFILE EXCEPT !.allowedPatterns = <<>>],
     FINE_STEP |-> [DEFAULT_PROFILE EXCEPT !.petalLength = Range(402, 404)],
     MODERN |-> [DEFAULT_PROFILE EXCEPT !.yearRange = Range(1700, 2025)]]

ProfileNames == DOMAIN Profiles

\* ------------------------------------------------------------------------
\* App: state
\* ------------------------------------------------------------------------

\* null, and a value held where null can be: <<>> and <<v>>
Null == <<>>

\* hp is kept in half points: the fruit of a FOOD cell heals I5 * 2.5 + 10.
HpScale == 2

XP_VALUES ==
    [SCAN_EMPTY |-> 1, SCAN_ITEM |-> 10, SCAN_FOOD |-> 10, BUY_ITEM |-> 50,
     DEATH_PENALTY |-> 500, LEVEL_THRESHOLD |-> 1000]

\* Shelf lives and effect durations are in seconds; a tool has no shelf life
\* and only the sandwich has an icon.
SUPERMARKET_CATALOG ==
    <<[id |-> "food-sandwich-1", type |-> "FOOD", name |-> "Sandwich",
       description |-> "Fresh. Spoils in 1 hour (game-time).",
       cost |-> 200, levelReq |-> 1,
       effectType |-> "HEAL", effectValue |-> 20, shelfLifeMs |-> <<60 * 60>>,
       icon |-> "SANDWICH"],
      [id |-> "food-ration-1", type |-> "FOOD", name |-> "Basic Rations",
       description |-> "Standard issue nutrient paste. Keeps for 24 hours.",
       cost |-> 50, levelReq |-> 1,
       effectType |-> "HEAL", effectValue |-> 20,
       shelfLifeMs |-> <<24 * 60 * 60>>, icon |-> Undefined],
      [id |-> "food-can-1", type |-> "FOOD", name |-> "Canned Beans",
       description |-> "Preserved protein. Lasts a week.",
       cost |-> 150, levelReq |-> 2,
       effectType |-> "HEAL", effectValue |-> 40,
       shelfLifeMs |-> <<7 * 24 * 60 * 60>>, icon |-> Undefined],
      [id |-> "food-mre-1", type |-> "FOOD", name |-> "M.R.E.",
       description |-> "Military Meal Ready-to-Eat. Lasts 30 days.",
       cost |-> 300, levelReq |-> 4,
       effectType |-> "HEAL", effectValue |-> 80,
       shelfLifeMs |-> <<30 * 24 * 60 * 60>>, icon |-> Undefined]>>

TOOLSHOP_CATALOG ==
    <<[id |-> "tool-battery-1", type |-> "TOOL", name |-> "Signal Booster",
       description |-> "Boosts detector range for 10 minutes.",
       cost |-> 200, levelReq |-> 1,
       effectType |-> "RANGE_BOOST", effectValue |-> 10 * 60,
       shelfLifeMs |-> Null, icon |-> Undefined],
      [id |-> "tool-sonar-1", type |-> "TOOL", name |-> "Sonar Battery",
       description |-> "Powers the sonar module for 5 minutes.",
       cost |-> 300, levelReq |-> 2,
       effectType |-> "SONAR_BOOST", effectValue |-> 5 * 60,
       shelfLifeMs |-> Null, icon |-> Undefined],
      [id |-> "tool-medkit-1", type |-> "TOOL", name |-> "Stim-Pack",
       description |->
           "Grants temporary immunity to environmental hazards (2 mins).",
       cost |-> 500, levelReq |-> 5,
       effectType |-> "IMMUNITY", effectValue |-> 2 * 60,
       shelfLifeMs |-> Null, icon |-> Undefined]>>

\* A shop factory that starts the spoilage countdown itself and lists the
\* artifact at no value
generateShopArtifact_Stamped(def) ==
    [id |-> <<def.id, clock>>,
     type |-> def.type,
     foundAt |-> [x |-> 0, y |-> 0],
     foundDate |-> clock,
     rarityScore |-> 0,
     monetaryValue |-> 0,
     data |-> [name |-> def.name,
               description |-> def.description,
               effectValue |-> def.effectValue,
               effectType |-> def.effectType,
               shelfLifeMs |-> def.shelfLifeMs,
               icon |-> def.icon,
               spoilageTimestamp |-> <<clock>>]]

\* generateShopArtifact(def); spoilageTimestamp is left unset (the buyer
\* sets it).
generateShopArtifact(def) ==
    LET data == [name |-> def.name,
                 description |-> def.description,
                 effectValue |-> def.effectValue,
                 effectType |-> def.effectType,
                 shelfLifeMs |-> def.shelfLifeMs,
                 icon |-> def.icon,
                 spoilageTimestamp |-> Null]
    IN  [id |-> <<def.id, clock>>,
         type |-> def.type,
         foundAt |-> [x |-> 0, y |-> 0],
         foundDate |-> clock,
         rarityScore |-> 0,
         monetaryValue |-> def.cost,
         data |-> data]

CELL_SIZE == 60

\* The cells the player walks: the start cell (EMPTY), a COIN cell, a
\* SUPERMARKET, a HOSTILE cell and a FOOD cell.
World == {<<16, 16>>, <<17, 16>>, <<20, 16>>, <<15, 15>>, <<16, 15>>}

\* The positions GPS reports: the centres of the cells of World, in metres
Positions ==
    {[x |-> c[1] * CELL_SIZE + CELL_SIZE \div 2,
      y |-> c[2] * CELL_SIZE + CELL_SIZE \div 2] : c \in World}

\* The own properties of the visited map: visited[key] is undefined elsewhere.
NothingVisited == [c \in World |-> Undefined]

\* The ration of a saved game: bought in an earlier session, it spoils one
\* second into this one (the clock starts at 0 with the session).
SavedRation ==
    LET def == SUPERMARKET_CATALOG[2]
        bought == 1 - def.shelfLifeMs[1]
    IN  [id |-> <<def.id, bought>>,
         type |-> def.type,
         foundAt |-> [x |-> 0, y |-> 0],
         foundDate |-> bought,
         rarityScore |-> 0,
         monetaryValue |-> def.cost,
         data |-> [name |-> def.name,
                   description |-> def.description,
                   effectValue |-> def.effectValue,
                   effectType |-> def.effectType,
                   shelfLifeMs |-> def.shelfLifeMs,
                   icon |-> def.icon,
                   spoilageTimestamp |-> <<1>>]]

\* The games loadGameState can return: none, the game saved after the
\* player has stood on the start cell until 5 hp were left, the game
\* saved after the coin of (17, 16) was sold for 64 and a ration bought, or
\* the game saved at 0 hp with 1000 in cash from coins sold, the supermarket
\* of (20, 16) visited.
SavedGames ==
    {Null,
     <<[hp |-> 0, balance |-> 1000, inventory |-> <<>>,
        visited |-> [NothingVisited EXCEPT ![<<16, 16>>] = "EMPTY",
                                           ![<<20, 16>>] = "SUPERMARKET"],
        detectorExpiry |-> Null, sonarExpiry |-> Null,
        immunityExpiry |-> Null, xp |-> 31]>>,
     <<[hp |-> 5 * HpScale, balance |-> 0, inventory |-> <<>>,
        visited |-> [NothingVisited EXCEPT ![<<16, 16>>] = "EMPTY"],
        detectorExpiry |-> Null, sonarExpiry |-> Null,
        immunityExpiry |-> Null, xp |-> 1]>>,
     <<[hp |-> 50 * HpScale, balance |-> 14, inventory |-> <<SavedRation>>,
        visited |-> [NothingVisited EXCEPT ![<<16, 16>>] = "EMPTY",
                                           ![<<17, 16>>] = "COIN",
                                           ![<<20, 16>>] = "SUPERMARKET"],
        detectorExpiry |-> Null, sonarExpiry |-> Null,
        immunityExpiry |-> Null, xp |-> 11]>>}

\* The useState initial values, then the effects of the mount: the load
\* effect on the saved game and the Update Cell effect (cell {0, 0} becomes
\* the cell of pos).
AppInit(saved) ==
    /\ view = "START"
    /\ hp = IF saved = Null THEN 50 * HpScale ELSE saved[1].hp
    /\ balance = IF saved = Null THEN 0 ELSE saved[1].balance
    /\ inventory = IF saved = Null THEN <<>> ELSE saved[1].inventory
    /\ visited = IF saved = Null THEN NothingVisited ELSE saved[1].visited
    /\ visitedRef = visited
    /\ showDev = FALSE
    /\ detectorExpiry = IF saved = Null THEN Null ELSE saved[1].detectorExpiry
    /\ sonarExpiry = IF saved = Null THEN Null ELSE saved[1].sonarExpiry
    /\ immunityExpiry = IF saved = Null THEN Null ELSE saved[1].immunityExpiry
    /\ xp = IF saved = Null THEN 0 ELSE saved[1].xp
    /\ lastDiscoveredArtifact = Null
    /\ now = clock
    /\ pos = [x |-> 1000, y |-> 1000]
    /\ cell = [x |-> 1000 \div CELL_SIZE, y |-> 1000 \div CELL_SIZE]
    /\ cellType = "EMPTY"

\* Derived values of a render
isHostile == cellType = "HOSTILE"
isSupermarket == cellType = "SUPERMARKET"
isToolShop == cellType = "TOOL_SHOP"
L5 == Abs(cell.y) % 10
currentKey == <<cell.x, cell.y>>
isVisited == visited[currentKey] # Undefined
isImmune == immunityExpiry # Null /\ now < immunityExpiry[1]

Min(a, b) == IF a < b THEN a ELSE b
Max(a, b) == IF a > b THEN a ELSE b

\* ------------------------------------------------------------------------
\* App: effects and timers
\* ------------------------------------------------------------------------


\* The GPS watcher reports a position more than 2 m from the last one, and
\* the Update Cell effect of the render that follows moves cell to it.  A fix
\* takes one second of the clock.
GpsUpdate(newMeters) ==
    LET currentCellX == newMeters.x \div CELL_SIZE
        currentCellY == newMeters.y \div CELL_SIZE
    IN  /\ view # "START"
        /\ clock < MaxClock
        /\ newMeters # pos
        /\ clock' = clock + 1
        /\ pos' = newMeters
        /\ cell' = IF currentCellX # cell.x \/ currentCellY # cell.y
                   THEN [x |-> currentCellX, y |-> currentCellY]
                   ELSE cell
        /\ visitedRef' = visited
        /\ showDev' = showDev
        /\ UNCHANGED <<probeVars, view, hp, balance, inventory, visited,
                       detectorExpiry, sonarExpiry, immunityExpiry, xp,
                       lastDiscoveredArtifact, now, cellType>>

\* The Cell Entry effect.  It runs after every change of cell or view and
\* is taken only where it changes the state.  It reads the visited map from
\* visitedRef, which the effect on [visited] brings up to date after a
\* commit; its updates are functional and apply to the state as it is.
CellEntry ==
    LET type == getCellType(cell.x, cell.y)
        key == <<cell.x, cell.y>>
        wasVisited == visitedRef[key] # Undefined
        I5 == Abs(cell.x) % 10
        heal == I5 * 5 + 10 * HpScale
        marked == \/ ~wasVisited /\ type # "COIN"
                  \/ type = "HOSTILE"
    IN  /\ view = "SCANNER"
        /\ cellType' = type
        /\ visited' = IF marked THEN [visited EXCEPT ![key] = type] ELSE visited
        /\ xp' = IF ~wasVisited /\ type = "EMPTY"
                 THEN xp + XP_VALUES.SCAN_EMPTY
                 ELSE IF ~wasVisited /\ type = "FOOD"
                 THEN xp + XP_VALUES.SCAN_FOOD
                 ELSE xp
        /\ view' = IF ~wasVisited /\ type \in {"SUPERMARKET", "TOOL_SHOP"}
                   THEN type ELSE view
        /\ hp' = IF ~wasVisited /\ type = "FOOD"
                 THEN Min(100 * HpScale, hp + heal) ELSE hp
        /\ <<cellType', visited', view', xp', hp'>>
              # <<cellType, visited, view, xp, hp>>
        /\ visitedRef' = visited'
        /\ showDev' = showDev
        /\ UNCHANGED <<clock, probeVars, balance, inventory, detectorExpiry,
                       sonarExpiry, immunityExpiry, lastDiscoveredArtifact,
                       now, pos, cell>>

\* Date.now() moves on.
Tick ==
    /\ clock < MaxClock
    /\ clock' = clock + 1
    /\ UNCHANGED <<probeVars, appVars>>

\* A damage interval that does not look at the immunity
HostileDamage_ThroughShield ==
    /\ clock < MaxClock
    /\ isHostile /\ view = "SCANNER"
    /\ clock' = clock + 1
    /\ hp' = Max(0, hp - ((L5 % 10) + 1) * HpScale)
    /\ visitedRef' = visited
    /\ showDev' = showDev
    /\ UNCHANGED <<probeVars, view, balance, inventory, visited,
                   detectorExpiry, sonarExpiry, immunityExpiry, xp,
                   lastDiscoveredArtifact, now, pos, cell, cellType>>

\* The damage and drain intervals fire as time passes: a firing takes one
\* second of the clock, and the periods (2 s, 12 s) are not told apart.
\* The Hostile Damage interval
HostileDamage ==
    /\ clock < MaxClock
    /\ isHostile /\ view = "SCANNER" /\ ~isImmune
    /\ clock' = clock + 1
    /\ hp' = Max(0, hp - ((L5 % 10) + 1) * HpScale)
    /\ visitedRef' = visited
    /\ showDev' = showDev
    /\ UNCHANGED <<probeVars, view, balance, inventory, visited,
                   detectorExpiry, sonarExpiry, immunityExpiry, xp,
                   lastDiscoveredArtifact, now, pos, cell, cellType>>

\* The Passive HP Drain interval
PassiveDrain ==
    /\ clock < MaxClock
    /\ view = "SCANNER" /\ hp > 0
    /\ clock' = clock + 1
    /\ hp' = Max(0, hp - 1 * HpScale)
    /\ visitedRef' = visited
    /\ showDev' = showDev
    /\ UNCHANGED <<probeVars, view, balance, inventory, visited,
                   detectorExpiry, sonarExpiry, immunityExpiry, xp,
                   lastDiscoveredArtifact, now, pos, cell, cellType>>

\* The Global Timer interval (exhaustion check)
GlobalTimer ==
    /\ now' = clock
    /\ view' = IF hp <= 0 /\ view # "EXHAUSTION" /\ view # "START"
               THEN "EXHAUSTION" ELSE view
    /\ visitedRef' = visited
    /\ showDev' = showDev
    /\ UNCHANGED <<clock, probeVars, hp, balance, inventory, visited,
                   detectorExpiry, sonarExpiry, immunityExpiry, xp,
                   lastDiscoveredArtifact, pos, cell, cellType>>

\* A FOOD artifact whose spoilage timestamp has passed
Spoiled(item) ==
    /\ item.type = "FOOD"
    /\ item.data.spoilageTimestamp # Null
    /\ clock > item.data.spoilageTimestamp[1]

\* The spoilage check interval: the spoiled food is filtered out of the
\* inventory; without any, the inventory is left as it is.
checkSpoilage ==
    /\ \E i \in DOMAIN inventory : Spoiled(inventory[i])
    /\ inventory' = SelectSeq(inventory, LAMBDA item : ~Spoiled(item))
    /\ visitedRef' = visited
    /\ showDev' = showDev
    /\ UNCHANGED <<clock, probeVars, view, hp, balance, visited,
                   detectorExpiry, sonarExpiry, immunityExpiry, xp,
                   lastDiscoveredArtifact, now, pos, cell, cellType>>

\* ------------------------------------------------------------------------
\* App: actions of the player
\* ------------------------------------------------------------------------

\* The indices of seq that hold an artifact of the type
IndicesOfType(seq, type) == {i \in DOMAIN seq : seq[i].type = type}

\* prev.filter(item => !itemsToSell.includes(item)), itemsToSell being the
\* objects at the indices sold
RECURSIVE WithoutFrom(_, _, _)
WithoutFrom(seq, sold, i) ==
    IF i > Len(seq) THEN <<>>
    ELSE (IF i \in sold THEN <<>> ELSE <<seq[i]>>)
         \o WithoutFrom(seq, sold, i + 1)

Without(seq, sold) == WithoutFrom(seq, sold, 1)

RECURSIVE SumValue(_, _)
SumValue(seq, indices) ==
    IF indices = {} THEN 0
    ELSE LET i == CHOOSE j \in indices : TRUE
         IN  seq[i].monetaryValue + SumValue(seq, indices \ {i})

handleStart ==
    /\ view = "START"
    /\ view' = "SCANNER"
    /\ visitedRef' = visited
    /\ showDev' = showDev
    /\ UNCHANGED <<clock, probeVars, hp, balance, inventory, visited,
                   detectorExpiry, sonarExpiry, immunityExpiry, xp,
                   lastDiscoveredArtifact, now, pos, cell, cellType>>

\* A scan that keeps only the artifact it has found
handleScan_Replace ==
    /\ view = "SCANNER"
    /\ hp > 0
    /\ IF isSupermarket /\ isVisited
       THEN /\ view' = "SUPERMARKET"
            /\ UNCHANGED <<inventory, visited, xp, lastDiscoveredArtifact>>
       ELSE IF isToolShop /\ isVisited
       THEN /\ view' = "TOOL_SHOP"
            /\ UNCHANGED <<inventory, visited, xp, lastDiscoveredArtifact>>
       ELSE IF ~isVisited /\ cellType = "EMPTY"
       THEN /\ visited' = [visited EXCEPT ![currentKey] = "EMPTY"]
            /\ xp' = xp + XP_VALUES.SCAN_EMPTY
            /\ UNCHANGED <<view, inventory, lastDiscoveredArtifact>>
       ELSE /\ ~isVisited /\ cellType = "COIN"
            /\ LET newArtifact == generateArtifact(cell.x, cell.y)
               IN  /\ lastDiscoveredArtifact' = <<newArtifact>>
                   /\ inventory' = <<newArtifact>>
            /\ view' = "DISCOVERY"
            /\ visited' = [visited EXCEPT ![currentKey] = "COIN"]
            /\ xp' = xp + XP_VALUES.SCAN_ITEM
    /\ UNCHANGED <<clock, probeVars, hp, balance, detectorExpiry,
                   sonarExpiry, immunityExpiry, now, pos, cell, cellType,
                   visitedRef, showDev>>

\* handleScan, from the click to the end of the handler.  The handler
\* decides on the values of the render that made it (cellType, isVisited)
\* and queues its updates; visitedRef is brought up to date by an effect of
\* the commit that follows, after the effects still pending from the commit
\* before the click have run.
handleScan ==
    /\ view = "SCANNER"
    /\ hp > 0
    /\ IF isSupermarket /\ isVisited
       THEN /\ view' = "SUPERMARKET"
            /\ UNCHANGED <<inventory, visited, xp, lastDiscoveredArtifact>>
       ELSE IF isToolShop /\ isVisited
       THEN /\ view' = "TOOL_SHOP"
            /\ UNCHANGED <<inventory, visited, xp, lastDiscoveredArtifact>>
       ELSE IF ~isVisited /\ cellType = "EMPTY"
       THEN /\ visited' = [visited EXCEPT ![currentKey] = "EMPTY"]
            /\ xp' = xp + XP_VALUES.SCAN_EMPTY
            /\ UNCHANGED <<view, inventory, lastDiscoveredArtifact>>
       ELSE /\ ~isVisited /\ cellType = "COIN"
            /\ LET newArtifact == generateArtifact(cell.x, cell.y)
               IN  /\ lastDiscoveredArtifact' = <<newArtifact>>
                   /\ inventory' = <<newArtifact>> \o inventory
            /\ view' = "DISCOVERY"
            /\ visited' = [visited EXCEPT ![currentKey] = "COIN"]
            /\ xp' = xp + XP_VALUES.SCAN_ITEM
    /\ UNCHANGED <<clock, probeVars, hp, balance, detectorExpiry,
                   sonarExpiry, immunityExpiry, now, pos, cell, cellType,
                   visitedRef, showDev>>

\* The buttons that only change the view
OpenInventory ==
    /\ view = "SCANNER"
    /\ view' = "INVENTORY"
    /\ visitedRef' = visited
    /\ showDev' = showDev
    /\ UNCHANGED <<clock, probeVars, hp, balance, inventory, visited,
                   detectorExpiry, sonarExpiry, immunityExpiry, xp,
                   lastDiscoveredArtifact, now, pos, cell, cellType>>

CloseOverlay ==
    /\ view \in {"INVENTORY", "DISCOVERY", "SUPERMARKET", "TOOL_SHOP"}
    /\ view' = "SCANNER"
    /\ visitedRef' = visited
    /\ showDev' = FALSE
    /\ UNCHANGED <<clock, probeVars, hp, balance, inventory, visited,
                   detectorExpiry, sonarExpiry, immunityExpiry, xp,
                   lastDiscoveredArtifact, now, pos, cell, cellType>>

\* handleSell on the coins selected in the inventory's SELL mode
handleSell(sold) ==
    LET value == SumValue(inventory, sold)
    IN  /\ view = "INVENTORY"
        /\ sold # {}
        /\ inventory' = Without(inventory, sold)
        /\ balance' = balance + value
        /\ visitedRef' = visited
        /\ showDev' = showDev
        /\ UNCHANGED <<clock, probeVars, view, hp, visited, detectorExpiry,
                       sonarExpiry, immunityExpiry, xp,
                       lastDiscoveredArtifact, now, pos, cell, cellType>>

\* handleUseItem on a tool or a food of the inventory
handleUseItem(item) ==
    LET data == item.data
    IN  /\ view = "INVENTORY"
        /\ inventory' = SelectSeq(inventory, LAMBDA i : i.id # item.id)
        /\ hp' = IF data.effectType = "HEAL"
                 THEN Min(100 * HpScale, hp + data.effectValue * HpScale)
                 ELSE hp
        /\ detectorExpiry' = IF data.effectType = "RANGE_BOOST"
                             THEN <<clock + data.effectValue>>
                             ELSE detectorExpiry
        /\ sonarExpiry' = IF data.effectType = "SONAR_BOOST"
                          THEN <<clock + data.effectValue>>
                          ELSE sonarExpiry
        /\ immunityExpiry' = IF data.effectType = "IMMUNITY"
                             THEN <<clock + data.effectValue>>
                             ELSE immunityExpiry
        /\ visitedRef' = visited
        /\ showDev' = showDev
        /\ UNCHANGED <<clock, probeVars, view, balance, visited, xp,
                       lastDiscoveredArtifact, now, pos, cell, cellType>>

\* Artifacts the inventory holds at most
MaxInventory == 2

CatalogOf(shop) ==
    IF shop = "SUPERMARKET" THEN SUPERMARKET_CATALOG ELSE TOOLSHOP_CATALOG

\* A purchase that does not look at the balance
handleBuyItem_OnCredit(defId, catalog) ==
    LET known == {i \in DOMAIN catalog : catalog[i].id = defId}
        def == catalog[CHOOSE i \in known : \A j \in known : i <= j]
    IN  /\ Len(inventory) < MaxInventory
        /\ IF known = {}
           THEN UNCHANGED <<balance, inventory>>
           ELSE /\ balance' = balance - def.cost
                /\ LET artifact == generateShopArtifact(def)
                       bought ==
                           IF def.shelfLifeMs # Null
                           THEN [artifact EXCEPT
                                   !.data.spoilageTimestamp =
                                       <<clock + def.shelfLifeMs[1]>>]
                           ELSE artifact
                   IN  inventory' = <<bought>> \o inventory
        /\ visitedRef' = visited
        /\ showDev' = showDev
        /\ UNCHANGED <<clock, view, hp, visited, detectorExpiry,
                       sonarExpiry, immunityExpiry, xp,
                       lastDiscoveredArtifact, now, pos, cell, cellType>>

\* handleBuyItem(defId, catalog): def is the first entry of the catalog with
\* the id; without one, or with a balance below its cost, the handler
\* returns with nothing changed.
handleBuyItem(defId, catalog) ==
    LET known == {i \in DOMAIN catalog : catalog[i].id = defId}
        def == catalog[CHOOSE i \in known : \A j \in known : i <= j]
    IN  /\ Len(inventory) < MaxInventory
        /\ IF known = {} \/ balance < def.cost
           THEN UNCHANGED <<balance, inventory>>
           ELSE /\ balance' = balance - def.cost
                /\ LET artifact == generateShopArtifact(def)
                       bought ==
                           IF def.shelfLifeMs # Null
                           THEN [artifact EXCEPT
                                   !.data.spoilageTimestamp =
                                       <<clock + def.shelfLifeMs[1]>>]
                           ELSE artifact
                   IN  inventory' = <<bought>> \o inventory
        /\ visitedRef' = visited
        /\ showDev' = showDev
        /\ UNCHANGED <<clock, view, hp, visited, detectorExpiry,
                       sonarExpiry, immunityExpiry, xp,
                       lastDiscoveredArtifact, now, pos, cell, cellType>>

\* Leveling
currentLevel == xp \div XP_VALUES.LEVEL_THRESHOLD + 1

\* The BUY button of an item of the shop's list: it is there in the shop
\* views, and disabled while the item is locked or the balance is short.
BuyButton(item) ==
    LET isLocked == currentLevel < item.levelReq
    IN  /\ view \in {"SUPERMARKET", "TOOL_SHOP"}
        /\ ~(isLocked \/ balance < item.cost)
        /\ handleBuyItem(item.id, CatalogOf(view))
        /\ UNCHANGED probeVars

REVIVE_COST == 1000

\* handleRevive on the coins selected in the inventory's REVIVE mode; the
\* button is enabled by canRevive and calls it when the cash is short.
handleRevive(itemsToSell) ==
    LET coins == IndicesOfType(inventory, "COIN")
        totalValue == SumValue(inventory, coins)
        selectedValue == SumValue(inventory, itemsToSell)
        canAffordCash == balance >= REVIVE_COST
        isBankrupt == ~canAffordCash /\ balance + totalValue < REVIVE_COST
        reviveTarget == IF canAffordCash THEN 0 ELSE REVIVE_COST - balance
        canRevive == \/ canAffordCash
                     \/ selectedValue >= reviveTarget
                     \/ isBankrupt /\ Abs(selectedValue - totalValue) < 1
    IN  /\ view = "EXHAUSTION"
        /\ canRevive /\ ~canAffordCash
        /\ inventory' = Without(inventory, itemsToSell)
        /\ balance' = balance + selectedValue - 1000
        /\ hp' = 50 * HpScale
        /\ immunityExpiry' = <<clock + 60>>
        /\ view' = "SCANNER"
        /\ visitedRef' = visited
        /\ showDev' = FALSE
        /\ UNCHANGED <<clock, probeVars, visited, detectorExpiry, sonarExpiry,
                       xp, lastDiscoveredArtifact, now, pos, cell, cellType>>

\* handleDirectPayRevive; the button of the REVIVE mode calls it when the
\* cash covers the bill.
handleDirectPayRevive ==
    LET canAffordCash == balance >= REVIVE_COST
    IN  /\ view = "EXHAUSTION"
        /\ canAffordCash
        /\ balance >= 1000
        /\ balance' = balance - 1000
        /\ hp' = 50 * HpScale
        /\ immunityExpiry' = <<clock + 60>>
        /\ view' = "SCANNER"
        /\ visitedRef' = visited
        /\ showDev' = FALSE
        /\ UNCHANGED <<clock, probeVars, inventory, visited, detectorExpiry,
                       sonarExpiry, xp, lastDiscoveredArtifact, now, pos,
                       cell, cellType>>

\* The DEV button of the inventory's header, shown in the VIEW mode, and the
\* X of the developer panel, shown with the panel in either mode.
ToggleDev ==
    /\ view = "INVENTORY" \/ (view = "EXHAUSTION" /\ showDev)
    /\ showDev' = ~showDev
    /\ visitedRef' = visited
    /\ UNCHANGED <<clock, probeVars, view, hp, balance, inventory, visited,
                   detectorExpiry, sonarExpiry, immunityExpiry, xp,
                   lastDiscoveredArtifact, now, pos, cell, cellType>>

\* onOpenWorkbench, the button of the developer panel; the panel is rendered
\* whenever showDev is set, in the REVIVE mode as well.
onOpenWorkbench ==
    /\ view \in {"INVENTORY", "EXHAUSTION"}
    /\ showDev
    /\ view' = "WORKBENCH"
    /\ showDev' = FALSE
    /\ visitedRef' = visited
    /\ UNCHANGED <<clock, probeVars, hp, balance, inventory, visited,
                   detectorExpiry, sonarExpiry, immunityExpiry, xp,
                   lastDiscoveredArtifact, now, pos, cell, cellType>>

\* The workbench's onClose
CloseWorkbench ==
    /\ view = "WORKBENCH"
    /\ view' = "INVENTORY"
    /\ visitedRef' = visited
    /\ UNCHANGED <<clock, probeVars, hp, balance, inventory, visited,
                   detectorExpiry, sonarExpiry, immunityExpiry, xp,
                   lastDiscoveredArtifact, now, pos, cell, cellType,
                   showDev>>

\* ------------------------------------------------------------------------
\* Specifications
\* ------------------------------------------------------------------------

Init ==
    /\ clock = 0
    /\ args = Null
    /\ calls = <<>>
    /\ \E saved \in SavedGames : AppInit(saved)

Next ==
    \/ Tick
    \/ handleStart
    \/ \E newMeters \in Positions : GpsUpdate(newMeters)
    \/ CellEntry
    \/ HostileDamage
    \/ PassiveDrain
    \/ GlobalTimer
    \/ checkSpoilage
    \/ handleScan
    \/ OpenInventory
    \/ CloseOverlay
    \/ \E sold \in SUBSET IndicesOfType(inventory, "COIN") : handleSell(sold)
    \/ \E i \in DOMAIN inventory :
          inventory[i].type \in {"FOOD", "TOOL"} /\ handleUseItem(inventory[i])
    \/ \E i \in DOMAIN CatalogOf(view) : BuyButton(CatalogOf(view)[i])
    \/ \E itemsToSell \in SUBSET IndicesOfType(inventory, "COIN") :
          handleRevive(itemsToSell)
    \/ handleDirectPayRevive
    \/ ToggleDev
    \/ onOpenWorkbench
    \/ CloseWorkbench

Spec == Init /\ [][Next]_vars

\* ------------------------------------------------------------------------
\* generateCoinFromProfile on one input, called at different times
\* ------------------------------------------------------------------------

CoinInit ==
    /\ clock = 0
    /\ args \in [cellX : Coords, cellY : Coords, profile : ProfileNames]
    /\ calls = <<>>
    /\ AppInit(Null)

CallGenerateCoin ==
    /\ Len(calls) < MaxCalls
    /\ calls' = Append(calls,
          [at |-> clock,
           out |-> generateCoinFromProfile(args.cellX, args.cellY,
                                           Profiles[args.profile])])
    /\ UNCHANGED <<clock, args, appVars>>

CoinNext ==
    \/ Tick
    \/ CallGenerateCoin

SpecCoin == CoinInit /\ [][CoinNext]_vars

VisualRanges ==
    {"shapeJitter", "petalCount", "petalLength", "petalWidth",
     "petalSharpness", "centerRadius"}

\* C6  Range respect: every generated year and visual attribute lies within
\* the profile's [min, max] after step-snapping.
C6_RangeRespect ==
    \A i \in DOMAIN calls :
        LET profile == Profiles[args.profile]
            coin == calls[i].out
        IN  /\ coin.year >= profile.yearRange.min
            /\ coin.year <= profile.yearRange.max
            /\ \A k \in VisualRanges :
                  /\ coin.visualOverrides[k] >= profile[k].min
                  /\ coin.visualOverrides[k] <= profile[k].max

\* C7  A profile that allows a single metal yields that metal for every
\* seed, and the year is an integer of the profile's yearRange.
C7_SingleMetal ==
    \A i \in DOMAIN calls :
        LET profile == Profiles[args.profile]
            coin == calls[i].out
        IN  Len(profile.allowedMetals) = 1 =>
               /\ coin.metal = profile.allowedMetals[1]
               /\ coin.year \in profile.yearRange.min..profile.yearRange.max

\* The copper-only profile at (5, 5): Copper, dated within -500 .. 1800
C7_Witness ==
    /\ args = [cellX |-> 5, cellY |-> 5, profile |-> "COPPER"]
    /\ calls # <<>>
    /\ calls[1].out.metal = "Copper"
    /\ calls[1].out.year \in (0 - 500)..1800

\* C8  A profile with no allowed metal or no allowed pattern still yields a
\* coin whose metal and pattern are members of their enumerations.
C8_EmptySetDefault ==
    \A i \in DOMAIN calls :
        /\ calls[i].out.metal \in CoinMetals
        /\ calls[i].out.pattern \in CoinPatterns

\* generateCoinFromProfile on one input, with no time passing
DrawsNext == CallGenerateCoin

SpecDraws == CoinInit /\ [][DrawsNext]_vars

\* C26  Coordinate negation symmetry: generateCoinFromProfile(x, y, p)
\* equals generateCoinFromProfile(-x, -y, p) for every coordinate and
\* profile, so generateArtifact yields the same data, rarityScore and
\* monetaryValue at (x, y) and at (-x, -y).
C26_NegationSymmetry ==
    \A i \in DOMAIN calls :
        /\ calls[i].out =
              generateCoinFromProfile(0 - args.cellX, 0 - args.cellY,
                                      Profiles[args.profile])
        /\ args.profile = "ANCIENT" =>
              With(generateArtifact(args.cellX, args.cellY), LAMBDA here :
              With(generateArtifact(0 - args.cellX, 0 - args.cellY),
                   LAMBDA there :
                      /\ here.data = calls[i].out
                      /\ there.data = here.data
                      /\ there.rarityScore = here.rarityScore
                      /\ there.monetaryValue = here.monetaryValue))

\* A coin of a cell off both axes: the cell mirrored in the origin has the
\* same coin, the cell mirrored in one axis another one
C26_Witness ==
    /\ Len(calls) >= 1
    /\ args.cellX = 3 /\ args.cellY = -2
    /\ args.profile = "ANCIENT"
    /\ calls[1].out = generateCoinFromProfile(-3, 2, GENERATOR_ANCIENT)
    /\ calls[1].out # generateCoinFromProfile(3, 2, GENERATOR_ANCIENT)

\* The entries each metal is to have in the factory's table
MetalCounts ==
    [Platinum |-> 1, Gold |-> 2, Silver |-> 5, Bronze |-> 8,
     Aluminium |-> 10, Brass |-> 12, Zinc |-> 15, Nickel |-> 20,
     Copper |-> 27]

\* C16  Weighted metal selection: the metal is allowedMetals[floor(rand * n)]
\* for the draw at offset 1, and the index is one of 0 .. n - 1 whenever the
\* sequence is not empty; the factory's table has 100 entries, Platinum 1,
\* Gold 2, Silver 5, Bronze 8, Aluminium 10, Brass 12, Zinc 15, Nickel 20,
\* Copper 27, so that many of the 100 values of floor(rand * 100) select
\* each metal.
C16_WeightedMetal ==
    \A c \in DOMAIN calls :
        /\ LET allowed == Profiles[args.profile].allowedMetals
               n == Len(allowed)
               i == FloorTimes(rand(CoinSeed(args.cellX, args.cellY), 1), n)
           IN  n > 0 =>
                  /\ i \in 0..(n - 1)
                  /\ calls[c].out.metal = allowed[i + 1]
        /\ GENERATOR_ANCIENT.allowedMetals = BASE_METALS_WEIGHTED
        /\ Len(BASE_METALS_WEIGHTED) = 100
        /\ \A m \in CoinMetals :
              Cardinality({k \in 0..99 : BASE_METALS_WEIGHTED[k + 1] = m})
                  = MetalCounts[m]

\* Cell (5, 5) under the factory's profile: floor(rand * 100) is 62, one of
\* the twenty values that select Nickel
C16_Witness ==
    /\ calls # <<>>
    /\ args = [cellX |-> 5, cellY |-> 5, profile |-> "ANCIENT"]
    /\ FloorTimes(rand(CoinSeed(5, 5), 1), 100) = 62
    /\ calls[1].out.metal = "Nickel"

\* C17  Condition from the year: with age = 2025 - year and roll the draw at
\* offset 4, age > 1000 gives Fine when roll > 0.8 and Poor otherwise;
\* otherwise age > 200 gives Very Fine when roll > 0.7 and Good otherwise;
\* otherwise Mint when roll > 0.9 and Near Mint otherwise.
C17_ConditionBranch ==
    \A c \in DOMAIN calls :
        LET out == calls[c].out
            age == 2025 - out.year
            roll == rand(CoinSeed(args.cellX, args.cellY), 4)
        IN  /\ age > 1000 =>
                  /\ out.condition \in {"Fine", "Poor"}
                  /\ out.condition = "Fine" <=> AboveTenths(roll, 8)
            /\ age <= 1000 /\ age > 200 =>
                  /\ out.condition \in {"Very Fine", "Good"}
                  /\ out.condition = "Very Fine" <=> AboveTenths(roll, 7)
            /\ age <= 200 =>
                  /\ out.condition \in {"Mint", "Near Mint"}
                  /\ out.condition = "Mint" <=> AboveTenths(roll, 9)

\* A coin less than 200 years old whose roll is above 0.9: Mint
C17_Witness ==
    /\ calls # <<>>
    /\ args.profile = "MODERN"
    /\ 2025 - calls[1].out.year <= 200
    /\ AboveTenths(rand(CoinSeed(args.cellX, args.cellY), 4), 9)
    /\ calls[1].out.condition = "Mint"

\* The seed offset of each attribute
SeedOffsets ==
    [metal |-> 1, year |-> 2, pattern |-> 3, condition |-> 4, size |-> 5,
     border |-> 6, shapeJitter |-> 10, petalCount |-> 11, petalLength |-> 12,
     petalWidth |-> 13, petalSharpness |-> 14, centerRadius |-> 15]

\* arr[Math.floor(r * arr.length)] for the draw r = u / 2^32
PickAt(arr, u) ==
    IF FloorTimes(u, Len(arr)) + 1 \in DOMAIN arr
    THEN arr[FloorTimes(u, Len(arr)) + 1]
    ELSE Undefined

\* Math.round((r.min + draw * (r.max - r.min)) / step) * step for the draw
\* u / 2^32
SnapAt(r, u, step) ==
    LET d == r.max - r.min
        twice == (u[1] * d + (u[2] * d) \div Half) \div (Half \div 2)
    IN  ((2 * r.min + step + twice) \div (2 * step)) * step

\* C18  Fixed seed offsets: every attribute of a generated coin is the
\* function of the one draw seededRandom(base + offset), with base =
\* abs(cellX * 49157 + cellY * 98953) and the offsets metal 1, year 2,
\* pattern 3, condition 4, size 5, border 6, shapeJitter 10, petalCount 11,
\* petalLength 12, petalWidth 13, petalSharpness 14, centerRadius 15; no
\* two attributes share an offset.
C18_SeedOffsets ==
    \A c \in DOMAIN calls :
        LET out == calls[c].out
            p == Profiles[args.profile]
            base == Abs(args.cellX * 49157 + args.cellY * 98953)
            Draw(attribute) == seededRandom(base + SeedOffsets[attribute])
        IN  /\ out.metal = PickAt(p.allowedMetals, Draw("metal"))
            /\ out.year = SnapAt(p.yearRange, Draw("year"), 1)
            /\ out.pattern = PickAt(p.allowedPatterns, Draw("pattern"))
            /\ out.condition = ConditionFor(2025 - out.year, Draw("condition"))
            /\ out.size = PickAt(CoinSizes, Draw("size"))
            /\ out.border = PickAt(CoinBorders, Draw("border"))
            /\ out.visualOverrides.shapeJitter
                  = SnapAt(p.shapeJitter, Draw("shapeJitter"), 100)
            /\ out.visualOverrides.petalCount
                  = RoundHalfUp(SnapAt(p.petalCount, Draw("petalCount"), Unit),
                                Unit) * Unit
            /\ out.visualOverrides.petalLength
                  = SnapAt(p.petalLength, Draw("petalLength"), DefaultStep)
            /\ out.visualOverrides.petalWidth
                  = SnapAt(p.petalWidth, Draw("petalWidth"), DefaultStep)
            /\ out.visualOverrides.petalSharpness
                  = SnapAt(p.petalSharpness, Draw("petalSharpness"),
                           DefaultStep)
            /\ out.visualOverrides.centerRadius
                  = SnapAt(p.centerRadius, Draw("centerRadius"), DefaultStep)
            /\ \A a, b \in DOMAIN SeedOffsets :
                  a # b => SeedOffsets[a] # SeedOffsets[b]

\* A cell with a negative coordinate sum, where Math.abs acts, and a coin
\* whose size and border come from different draws
C18_Witness ==
    /\ calls # <<>>
    /\ args.cellX * 49157 + args.cellY * 98953 < 0
    /\ FloorTimes(seededRandom(CoinSeed(args.cellX, args.cellY) + 5), 3)
          # FloorTimes(seededRandom(CoinSeed(args.cellX, args.cellY) + 6), 3)
    /\ calls[1].out.border
          = PickAt(CoinBorders,
                   seededRandom(CoinSeed(args.cellX, args.cellY) + 6))

\* ------------------------------------------------------------------------
\* generateCoinFromProfile on one cell, called with different profiles
\* ------------------------------------------------------------------------

ProfilesInit ==
    /\ clock = 0
    /\ args \in [cellX : Coords, cellY : Coords]
    /\ calls = <<>>
    /\ AppInit(Null)

CallWithProfile(name) ==
    /\ Len(calls) < MaxCalls
    /\ calls' = Append(calls,
          [profile |-> name,
           out |-> generateCoinFromProfile(args.cellX, args.cellY,
                                           Profiles[name])])
    /\ UNCHANGED <<clock, args, appVars>>

ProfilesNext == \E name \in ProfileNames : CallWithProfile(name)

SpecProfiles == ProfilesInit /\ [][ProfilesNext]_vars

\* The sizes and the borders generated over the cells of Coords
SizesGenerated ==
    {PickAt(CoinSizes, rand(CoinSeed(x, y), SeedOffsets.size)) :
        x \in Coords, y \in Coords}

BordersGenerated ==
    {PickAt(CoinBorders, rand(CoinSeed(x, y), SeedOffsets.border)) :
        x \in Coords, y \in Coords}

\* C19  Size and border are not profile-constrained: at one coordinate the
\* generator returns the same size and the same border under any two
\* profiles, and over the coordinates every one of the 4 sizes and of the 3
\* borders is generated.
C19_SizeBorderFree ==
    /\ \A i, j \in DOMAIN calls :
          /\ calls[i].out.size = calls[j].out.size
          /\ calls[i].out.border = calls[j].out.border
    /\ \A i \in DOMAIN calls :
          /\ calls[i].out.size \in SizesGenerated
          /\ calls[i].out.border \in BordersGenerated
          /\ SizesGenerated = {CoinSizes[k] : k \in DOMAIN CoinSizes}
          /\ BordersGenerated = {CoinBorders[k] : k \in DOMAIN CoinBorders}
          /\ Cardinality(SizesGenerated) = 4
          /\ Cardinality(BordersGenerated) = 3

\* One cell under the factory's profile and under the workbench's default:
\* the coins differ, their sizes and borders do not
C19_Witness ==
    /\ Len(calls) = 2
    /\ calls[1].profile = "ANCIENT"
    /\ calls[2].profile = "DEFAULT"
    /\ calls[1].out.metal # calls[2].out.metal
    /\ calls[1].out.size = calls[2].out.size
    /\ calls[1].out.border = calls[2].out.border

\* ------------------------------------------------------------------------
\* generateArtifact on one cell, called at different times
\* ------------------------------------------------------------------------

FactoryInit ==
    /\ clock = 0
    /\ args \in [cellX : Coords, cellY : Coords]
    /\ calls = <<>>
    /\ AppInit(Null)

CallGenerateArtifact ==
    /\ Len(calls) < MaxCalls
    /\ calls' = Append(calls,
          [at |-> clock, out |-> generateArtifact(args.cellX, args.cellY)])
    /\ UNCHANGED <<clock, args, appVars>>

FactoryNext ==
    \/ Tick
    \/ CallGenerateArtifact

SpecFactory == FactoryInit /\ [][FactoryNext]_vars

C27_NeverMint ==
    LET range == GENERATOR_ANCIENT.yearRange
        Worn(condition, year) ==
            /\ condition \in {"Poor", "Fine", "Good", "Very Fine"}
            /\ condition \in {"Poor", "Fine"} <=> year < 1025
    IN  \A i \in DOMAIN calls :
            /\ calls[i].out.data.year >= range.min
            /\ calls[i].out.data.year <= range.max
            /\ 2025 - calls[i].out.data.year >= 225
            /\ Worn(calls[i].out.data.condition, calls[i].out.data.year)
            /\ \A year \in {range.min, 1024, 1025, range.max} :
               \A condRoll \in {<<0, 0>>, rand(CoinSeed(args.cellX, args.cellY), 4),
                                 <<Half - 1, Half - 1>>} :
                   Worn(ConditionFor(2025 - year, condRoll), year)

\* Artifacts of both age bands: an old coin in Fine condition, or a coin of
\* 1025 or later in Very Fine condition
C27_Witness ==
    /\ Len(calls) >= 1
    /\ \/ /\ calls[1].out.data.year < 1025
          /\ calls[1].out.data.condition = "Fine"
          /\ args.cellX = -5
       \/ /\ calls[1].out.data.year >= 1025
          /\ calls[1].out.data.condition = "Very Fine"
          /\ args.cellX = 5

\* ------------------------------------------------------------------------
\* handleBuyItem on one id and catalog, called from different balances
\* ------------------------------------------------------------------------

\* The ids of both catalogs, and an id of neither
BuyIds ==
    {SUPERMARKET_CATALOG[i].id : i \in DOMAIN SUPERMARKET_CATALOG}
    \cup {TOOLSHOP_CATALOG[i].id : i \in DOMAIN TOOLSHOP_CATALOG}
    \cup {"boutique-1"}

\* Balances around the prices 50 .. 500
Balances == {0, 49, 50, 99, 100, 199, 200, 399, 400, 1000}

BuyInit ==
    /\ clock = 0
    /\ args \in [defId : BuyIds, shop : {"SUPERMARKET", "TOOL_SHOP"}]
    /\ calls = <<>>
    /\ \E b \in Balances :
          AppInit(<<[hp |-> 50 * HpScale, balance |-> b, inventory |-> <<>>,
                     visited |-> NothingVisited, detectorExpiry |-> Null,
                     sonarExpiry |-> Null, immunityExpiry |-> Null,
                     xp |-> 0]>>)

\* A call of the handler; the balance and the inventory it starts from and
\* leaves are kept with the call.
CallHandleBuyItem ==
    /\ Len(calls) < MaxCalls
    /\ handleBuyItem(args.defId, CatalogOf(args.shop))
    /\ calls' = Append(calls,
          [at |-> clock,
           balance |-> balance,
           inventory |-> inventory,
           out |-> [balance |-> balance', inventory |-> inventory']])
    /\ UNCHANGED args

BuyNext ==
    \/ Tick
    \/ CallHandleBuyItem

SpecBuy == BuyInit /\ [][BuyNext]_vars

\* C28  Purchase guard: handleBuyItem with a balance below the cost, or with
\* an id the catalog does not have, leaves balance and inventory as they
\* are; otherwise it lowers the balance by the cost and prepends one
\* artifact whose monetaryValue is that cost.  A purchase never makes a
\* non-negative balance negative.
C28_PurchaseGuard ==
    \A i \in DOMAIN calls :
        LET call == calls[i]
            catalog == CatalogOf(args.shop)
            known == {k \in DOMAIN catalog : catalog[k].id = args.defId}
            cost == catalog[CHOOSE k \in known : TRUE].cost
        IN  /\ IF known = {} \/ call.balance < cost
               THEN /\ call.out.balance = call.balance
                    /\ call.out.inventory = call.inventory
               ELSE /\ call.out.balance = call.balance - cost
                    /\ Len(call.out.inventory) = Len(call.inventory) + 1
                    /\ Tail(call.out.inventory) = call.inventory
                    /\ Head(call.out.inventory).monetaryValue = cost
            /\ call.balance >= 0 => call.out.balance >= 0

\* A purchase that the balance covers, then one that it does not; and a
\* call with an id of the other shop's catalog
C28_Witness ==
    /\ Len(calls) = 2
    /\ \/ /\ args.defId = "food-ration-1" /\ args.shop = "SUPERMARKET"
          /\ calls[1].balance = 99 /\ calls[1].out.balance = 49
          /\ Len(calls[1].out.inventory) = 1
          /\ calls[2].out.balance = 49
          /\ calls[2].out.inventory = calls[1].out.inventory
       \/ /\ args.defId = "food-ration-1" /\ args.shop = "TOOL_SHOP"
          /\ calls[1].balance = 1000 /\ calls[2].out.balance = 1000
          /\ calls[2].out.inventory = <<>>

\* ------------------------------------------------------------------------
\* generateArtifact on cells of different regions
\* ------------------------------------------------------------------------

\* Cell coordinates on both sides of the borders of the 50 x 50 regions
\* -3 .. 2
RegionCoords == {-101, -51, -50, -1, 0, 49, 50, 100}

RegionOf(c) == c \div 50

RegionsInit ==
    /\ clock = 0
    /\ args \in [cellX : RegionCoords, cellY : RegionCoords]
    /\ calls = <<>>
    /\ AppInit(Null)

RegionsNext == CallGenerateArtifact

SpecRegions == RegionsInit /\ [][RegionsNext]_vars

\* C21  generateArtifact produces type COIN with data from the built-in
\* GENERATOR_ANCIENT profile for every integer coordinate, negative ones and
\* coordinates of different 50 x 50 regions included; the region hash never
\* selects an undefined type.
C21_AlwaysCoin ==
    \A i \in DOMAIN calls :
        /\ getArtifactTypeForRegion(args.cellX, args.cellY) = "COIN"
        /\ calls[i].out.type = "COIN"
        /\ calls[i].out.data =
              generateCoinFromProfile(args.cellX, args.cellY,
                                      GENERATOR_ANCIENT)
        /\ calls[i].out.foundAt = [x |-> args.cellX, y |-> args.cellY]

\* An artifact made at a cell of negative coordinates whose region has an
\* odd hash (region (-3, 1): |-93 + 17| = 76; region (-2, 1): |-62 + 17| = 45)
C21_Witness ==
    /\ Len(calls) >= 1
    /\ args.cellX < 0
    /\ RegionOf(args.cellX) = -2 /\ RegionOf(args.cellY) = 1
    /\ Abs(RegionOf(args.cellX) * 31 + RegionOf(args.cellY) * 17) % 2 = 1
    /\ calls[1].out.type = "COIN"

\* ------------------------------------------------------------------------
\* seededRandom on one seed, called at different times
\* ------------------------------------------------------------------------

\* Seeds 0 .. MaxSeed
MaxSeed == 40

\* The small seeds, a seed of the generator (cell (5, 5), offset 1) and the
\* largest 32-bit signed seed, where seed += 0x6D2B79F5 leaves 31 bits
Seeds == 0..MaxSeed \cup {CoinSeed(5, 5) + 1, 2147483647}

RandomInit ==
    /\ clock = 0
    /\ args \in [seed : Seeds]
    /\ calls = <<>>
    /\ AppInit(Null)

CallSeededRandom ==
    /\ Len(calls) < MaxCalls
    /\ calls' = Append(calls, [at |-> clock, out |-> seededRandom(args.seed)])
    /\ UNCHANGED <<clock, args, appVars>>

RandomNext ==
    \/ Tick
    \/ CallSeededRandom

SpecRandom == RandomInit /\ [][RandomNext]_vars

ShopItemDefs ==
    {SUPERMARKET_CATALOG[i] : i \in DOMAIN SUPERMARKET_CATALOG}
        \cup {TOOLSHOP_CATALOG[i] : i \in DOMAIN TOOLSHOP_CATALOG}

ShopInit ==
    /\ clock = 0
    /\ args \in [def : ShopItemDefs]
    /\ calls = <<>>
    /\ AppInit(Null)

CallGenerateShopArtifact ==
    /\ Len(calls) < MaxCalls
    /\ calls' = Append(calls,
          [at |-> clock, out |-> generateShopArtifact(args.def)])
    /\ UNCHANGED <<clock, args, appVars>>

ShopNext ==
    \/ Tick
    \/ CallGenerateShopArtifact

SpecShop == ShopInit /\ [][ShopNext]_vars

\* C11  generateShopArtifact is non-procedural: the artifact has the type of
\* the catalog entry, monetaryValue = cost and rarityScore = 0; its data
\* holds name, description, effectValue, effectType, shelfLifeMs and icon as
\* the entry has them, and no spoilage field is set.
C11_ShopArtifact ==
    \A i \in DOMAIN calls :
        LET out == calls[i].out
            def == args.def
        IN  /\ out.type = def.type
            /\ out.monetaryValue = def.cost
            /\ out.rarityScore = 0
            /\ out.data.name = def.name
            /\ out.data.description = def.description
            /\ out.data.effectValue = def.effectValue
            /\ out.data.effectType = def.effectType
            /\ out.data.shelfLifeMs = def.shelfLifeMs
            /\ out.data.icon = def.icon
            /\ out.data.spoilageTimestamp = Null

\* The sandwich (the entry with a shelf life and an icon) and a tool (with
\* neither) have been made into artifacts
C11_Witness ==
    /\ calls # <<>>
    /\ \/ /\ args.def.id = "food-sandwich-1"
          /\ calls[1].out.data.icon = "SANDWICH"
          /\ calls[1].out.monetaryValue = 200
       \/ /\ args.def.id = "tool-medkit-1"
          /\ calls[1].out.data.shelfLifeMs = Null
          /\ calls[1].out.monetaryValue = 500

\* ------------------------------------------------------------------------
\* The cell classifier on every roll
\* ------------------------------------------------------------------------

\* masterScore is Math.floor(random0to1 * 100): one of 100 rolls
RollCount == 100

Rolls == 0..(RollCount - 1)

ClassifyInit ==
    /\ clock = 0
    /\ args \in [masterScore : Rolls, cellX : Coords, cellY : {0, 1}]
    /\ calls = <<>>
    /\ AppInit(Null)

CallClassify ==
    /\ calls = <<>>
    /\ calls' = <<[at |-> clock,
                   out |-> CellTypeOfScore(args.masterScore, args.cellX,
                                           args.cellY)]>>
    /\ UNCHANGED <<clock, args, appVars>>

ClassifyNext == CallClassify

SpecClassify == ClassifyInit /\ [][ClassifyNext]_vars

\* The five categories, in the order of their bands; the two shops share
\* one.
Categories == <<"EMPTY", "SHOP", "FOOD", "COIN", "HOSTILE">>

CategoryOf(type) ==
    IF type \in {"SUPERMARKET", "TOOL_SHOP"} THEN "SHOP" ELSE type

\* The rolls of a category at the cell of args
Band(category) ==
    {r \in Rolls :
        CategoryOf(CellTypeOfScore(r, args.cellX, args.cellY)) = category}

\* The bands of the five categories
Bands == <<Band("EMPTY"), Band("SHOP"), Band("FOOD"), Band("COIN"),
           Band("HOSTILE")>>

RECURSIVE SumOfWidths(_, _)
SumOfWidths(B, n) ==
    IF n = 0 THEN 0 ELSE Cardinality(B[n]) + SumOfWidths(B, n - 1)

IsInterval(S) == \A r \in S : r + 1 \in S \/ \A q \in S : q <= r

\* C2  Classifier exhaustiveness: every roll 0 .. 99 gets exactly one
\* category; the bands do not overlap, leave no roll between 0 and 99 out,
\* and their widths sum to 100.  The bands cut by thresholds are intervals,
\* HOSTILE over COIN over FOOD, and EMPTY is all that remains around the
\* shop's one roll.
C2_Exhaustive ==
    With(Bands, LAMBDA B :
        /\ \A i \in DOMAIN calls :
              /\ calls[i].out \in CellTypes
              /\ Cardinality({n \in DOMAIN B : args.masterScore \in B[n]}) = 1
              /\ \E n \in DOMAIN B :
                    /\ Categories[n] = CategoryOf(calls[i].out)
                    /\ args.masterScore \in B[n]
        /\ \A m, n \in DOMAIN B : m # n => B[m] \cap B[n] = {}
        /\ UNION {B[n] : n \in DOMAIN B} = Rolls
        /\ SumOfWidths(B, Len(B)) = RollCount
        /\ \A n \in 2..Len(B) : IsInterval(B[n])
        /\ IsInterval(B[1] \cup B[2]))

\* A roll of the EMPTY band above the shop's roll, classified
C2_Witness ==
    /\ calls # <<>>
    /\ args.masterScore = 65
    /\ calls[1].out = "EMPTY"

\* C3  Band boundaries: a roll of 90 or more is HOSTILE (10 rolls), 80 .. 89
\* is COIN (10), 70 .. 79 is FOOD (10), exactly 59 is a shop (1), and every
\* other roll is EMPTY (69).
C3_Bands ==
    /\ \A i \in DOMAIN calls :
          LET m == args.masterScore
              type == calls[i].out
          IN  /\ m >= 90 <=> type = "HOSTILE"
              /\ (m >= 80 /\ m <= 89) <=> type = "COIN"
              /\ (m >= 70 /\ m <= 79) <=> type = "FOOD"
              /\ m = 59 <=> type \in {"SUPERMARKET", "TOOL_SHOP"}
              /\ (m < 59 \/ (m > 59 /\ m < 70)) <=> type = "EMPTY"
    /\ With(Bands, LAMBDA B :
          <<Cardinality(B[5]), Cardinality(B[4]), Cardinality(B[3]),
            Cardinality(B[2]), Cardinality(B[1])>> = <<10, 10, 10, 1, 69>>)

\* The shop's roll and both edges of the COIN band, classified
C3_Witness ==
    /\ calls # <<>>
    /\ \/ args.masterScore = 59 /\ calls[1].out = "SUPERMARKET"
       \/ args.masterScore = 80 /\ calls[1].out = "COIN"
       \/ args.masterScore = 89 /\ calls[1].out = "COIN"

\* The cells next to the cell of args along one axis
Neighbours ==
    {<<args.cellX + 1, args.cellY>>, <<args.cellX - 1, args.cellY>>,
     <<args.cellX, args.cellY + 1>>, <<args.cellX, args.cellY - 1>>}

\* C22  Shop sub-variant: a cell whose roll is 59 is SUPERMARKET when
\* |cellX + cellY| is even and TOOL_SHOP when it is odd, negative
\* coordinates included; hence two shop cells next to each other along one
\* axis are of different variants.
C22_ShopVariant ==
    \A i \in DOMAIN calls :
        args.masterScore = 59 =>
            /\ calls[i].out =
                  IF \E k \in (0 - MaxCoord - 1)..(MaxCoord + 1) :
                        args.cellX + args.cellY = 2 * k
                  THEN "SUPERMARKET" ELSE "TOOL_SHOP"
            /\ \A n \in Neighbours :
                  LET other == CellTypeOfScore(59, n[1], n[2])
                  IN  /\ other \in {"SUPERMARKET", "TOOL_SHOP"}
                      /\ other # calls[i].out

\* A shop cell of negative, odd coordinate sum: a TOOL_SHOP among
\* SUPERMARKET neighbours
C22_Witness ==
    /\ calls # <<>>
    /\ args.masterScore = 59
    /\ args.cellX + args.cellY = -3
    /\ calls[1].out = "TOOL_SHOP"
    /\ \A n \in Neighbours : CellTypeOfScore(59, n[1], n[2]) = "SUPERMARKET"

\* ------------------------------------------------------------------------
\* Scoring and valuation on pairs of valid coins
\* ------------------------------------------------------------------------

\* Years sampled evenly over -500 .. 2025, both ends included
YearSteps == 2

\* The sampled years, and the years around 1015: a Copper coin of 1015 in
\* Fine condition scores 10/3, where the exponent score * 0.6 is 2 but for
\* rounding.
Years ==
    {(0 - 500) + (i * (2025 + 500)) \div YearSteps : i \in 0..YearSteps}
    \cup {1014, 1015, 1016}

ValidCoins == [metal : CoinMetals, year : Years, condition : CoinConditions]

\* The fields in which two coins differ
Differences(a, b) == {f \in {"metal", "year", "condition"} : a[f] # b[f]}

ScoreInit ==
    /\ clock = 0
    /\ args \in {p \in [coin : ValidCoins, other : ValidCoins] :
                    Cardinality(Differences(p.coin, p.other)) = 1}
    /\ calls = <<>>
    /\ AppInit(Null)

CallScore ==
    /\ calls = <<>>
    /\ calls' = <<[at |-> clock,
                   out |-> [score |-> calculateCoinScore(args.coin),
                            value |-> calculateCoinValue(args.coin),
                            otherScore |-> calculateCoinScore(args.other),
                            otherValue |-> calculateCoinValue(args.other)]]>>
    /\ UNCHANGED <<clock, args, appVars>>

ScoreNext == CallScore

SpecScore == ScoreInit /\ [][ScoreNext]_vars

\* C4  Score range: the score of a coin with one of the nine metals, a year
\* in -500 .. 2025 and one of the six conditions lies in [0, 10].
C4_ScoreRange ==
    \A i \in DOMAIN calls :
        /\ calls[i].out.score >= 0
        /\ calls[i].out.score <= 10 * ScoreDen
        /\ calls[i].out.otherScore >= 0
        /\ calls[i].out.otherScore <= 10 * ScoreDen

\* The oldest Platinum coin in Mint condition reaches the score 10
C4_Witness ==
    /\ calls # <<>>
    /\ args.coin = [metal |-> "Platinum", year |-> 0 - 500,
                    condition |-> "Mint"]
    /\ calls[1].out.score = 10 * ScoreDen

\* The coin of the heaviest metal, the greatest age and the best condition
MaxCoin == [metal |-> "Platinum", year |-> 0 - 500, condition |-> "Mint"]

\* C15  Maximum score: the Platinum coin of the year -500 in Mint condition
\* scores exactly 10, and no valid coin scores higher than it.
C15_MaxScore ==
    \A i \in DOMAIN calls :
        /\ args.coin = MaxCoin => calls[i].out.score = 10 * ScoreDen
        /\ args.other = MaxCoin => calls[i].out.otherScore = 10 * ScoreDen
        /\ calls[i].out.score <= calculateCoinScore(MaxCoin)
        /\ calls[i].out.otherScore <= calculateCoinScore(MaxCoin)

\* The maximal coin scored beside the Gold coin of the same year and
\* condition, which scores less
C15_Witness ==
    /\ calls # <<>>
    /\ args.other = MaxCoin
    /\ args.coin = [MaxCoin EXCEPT !.metal = "Gold"]
    /\ calls[1].out.otherScore = 10 * ScoreDen
    /\ calls[1].out.score < calls[1].out.otherScore

\* a is at least b in metal weight, in age and in condition
AtLeast(a, b) ==
    /\ METAL_WEIGHTS_X2[a.metal] >= METAL_WEIGHTS_X2[b.metal]
    /\ 2025 - a.year >= 2025 - b.year
    /\ CONDITION_SCORES[a.condition] >= CONDITION_SCORES[b.condition]

\* C5  Value monotonicity: of two coins that differ in one sub-score (metal
\* weight, age or condition), the one with the higher sub-score has a value
\* at least as large.
C5_ValueMonotone ==
    \A i \in DOMAIN calls :
        AtLeast(args.coin, args.other) =>
            calls[i].out.value >= calls[i].out.otherValue

\* An older coin of the same metal and condition, worth strictly more
C5_Witness ==
    /\ calls # <<>>
    /\ Differences(args.coin, args.other) = {"year"}
    /\ args.coin.year < args.other.year
    /\ calls[1].out.value > calls[1].out.otherValue

\* ------------------------------------------------------------------------
\* The value curve on scores 0 .. 10
\* ------------------------------------------------------------------------

\* Scores in steps of 1/6 (exponents in steps of 0.1), 0 .. MaxScoreStep / 6
MaxScoreStep == 60

Scores == {k * (ScoreDen \div 6) : k \in 0..MaxScoreStep}

CurveInit ==
    /\ clock = 0
    /\ args \in [score : Scores]
    /\ calls = <<>>
    /\ AppInit(Null)

CallValueOfScore ==
    /\ Len(calls) < MaxCalls
    /\ calls' = Append(calls, [at |-> clock, out |-> ValueOfScore(args.score)])
    /\ UNCHANGED <<clock, args, appVars>>

CurveNext ==
    \/ Tick
    \/ CallValueOfScore

SpecCurve == CurveInit /\ [][CurveNext]_vars

\* C14  Value curve: Math.floor(Math.pow(10, score * 0.6)) is 1 at score 0,
\* 1,000 at score 5 and 1,000,000 at score 10, and calculateCoinValue is
\* that curve on the coin's score (Nickel / 5 / Fine scores 5, Platinum /
\* -500 / Mint scores 10).
C14_ValueCurve ==
    \A i \in DOMAIN calls :
        LET five == [metal |-> "Nickel", year |-> 5, condition |-> "Fine"]
            ten == [metal |-> "Platinum", year |-> 0 - 500,
                    condition |-> "Mint"]
        IN  /\ args.score = 0 => calls[i].out = 1
            /\ args.score = 5 * ScoreDen =>
                  /\ calls[i].out = 1000
                  /\ calculateCoinScore(five) = args.score
                  /\ calculateCoinValue(five) = calls[i].out
            /\ args.score = 10 * ScoreDen =>
                  /\ calls[i].out = 1000000
                  /\ calculateCoinScore(ten) = args.score
                  /\ calculateCoinValue(ten) = calls[i].out
            /\ args.score <= 10 * ScoreDen => calls[i].out \in 1..1000000

\* The curve evaluated at score 5
C14_Witness ==
    /\ args.score = 5 * ScoreDen
    /\ calls # <<>>
    /\ calls[1].out = 1000

\* ------------------------------------------------------------------------
\* Properties of the App
\* ------------------------------------------------------------------------

SelfDescribing(artifact) ==
    /\ artifact.rarityScore = calculateCoinScore(artifact.data)
    /\ artifact.monetaryValue = calculateCoinValue(artifact.data)
    /\ artifact.monetaryValue = ValueOfScore(artifact.rarityScore)

\* C10  Self-describing artifacts: the COIN artifact generateArtifact has
\* returned to handleScan, and every COIN artifact the inventory holds after
\* any scans, sales, uses and purchases, has rarityScore =
\* calculateCoinScore(data) and monetaryValue = calculateCoinValue(data) =
\* Math.floor(Math.pow(10, rarityScore * 0.6)).
C10_SelfDescribing ==
    /\ \A i \in DOMAIN inventory :
          inventory[i].type = "COIN" => SelfDescribing(inventory[i])
    /\ \A i \in DOMAIN lastDiscoveredArtifact :
          SelfDescribing(lastDiscoveredArtifact[i])

\* The coin of cell (17, 16), a Nickel of 664 in Poor condition scored
\* 27442 / 9090 and worth 64, held beside a ration bought with the proceeds
\* of an earlier sale
C10_Witness ==
    /\ \E i \in DOMAIN inventory :
          /\ inventory[i].type = "COIN"
          /\ inventory[i].foundAt = [x |-> 17, y |-> 16]
          /\ inventory[i].data.metal = "Nickel"
          /\ inventory[i].data.year = 664
          /\ inventory[i].rarityScore = 27442
          /\ inventory[i].monetaryValue = 64
    /\ \E i \in DOMAIN inventory : inventory[i].type = "FOOD"

\* C12  Unique ids: whatever excavations and purchases have been made, two
\* of them for the same catalog entry with no advance of the clock between
\* them included, no two artifacts of the inventory have the same id.
C12_UniqueIds ==
    \A i, j \in DOMAIN inventory :
        i # j => inventory[i].id # inventory[j].id

\* The two artifacts agree in everything but the spoilage field of an item
SameButSpoilage(a, b) ==
    /\ a.id = b.id
    /\ a.type = b.type
    /\ a.foundAt = b.foundAt
    /\ a.foundDate = b.foundDate
    /\ a.rarityScore = b.rarityScore
    /\ a.monetaryValue = b.monetaryValue
    /\ IF a.type = "COIN"
       THEN a.data = b.data
       ELSE [a.data EXCEPT !.spoilageTimestamp = Null]
                = [b.data EXCEPT !.spoilageTimestamp = Null]

\* C20  Artifact immutability: in every step an artifact that stays in the
\* inventory keeps its id, type, foundAt, foundDate, data, rarityScore and
\* monetaryValue (a COIN all of its data, visual overrides included; an item
\* all but its spoilage field), and an artifact leaves the inventory only in
\* a step of handleSell, of handleRevive (which sells), of handleUseItem or of
\* the spoilage check.
C20_Immutable ==
    [][/\ \A i \in DOMAIN inventory :
            \A j \in DOMAIN inventory' :
                inventory[i].id = inventory'[j].id =>
                    SameButSpoilage(inventory[i], inventory'[j])
       /\ (\E i \in DOMAIN inventory :
              \A j \in DOMAIN inventory' : inventory'[j].id # inventory[i].id)
          => \/ \E sold \in SUBSET IndicesOfType(inventory, "COIN") :
                   handleSell(sold) \/ handleRevive(sold)
             \/ \E i \in DOMAIN inventory : handleUseItem(inventory[i])
             \/ checkSpoilage]_vars

\* A coin found earlier is still held, beside a purchased item whose
\* spoilage timestamp is set, and time has passed since the find
C20_Witness ==
    \E i, j \in DOMAIN inventory :
        /\ inventory[i].type = "COIN"
        /\ inventory[i].foundDate < clock
        /\ inventory[j].type = "FOOD"
        /\ inventory[j].data.spoilageTimestamp # Null
        /\ inventory[j].foundDate >= inventory[i].foundDate

\* C23  Excavation only on coin cells: every COIN artifact of the inventory
\* was found at a cell that getCellType classifies as COIN, and no two
\* artifacts of the inventory were found at the same cell, under any
\* interleaving of position updates, view changes, the cell-entry effect
\* and scans.
C23_CoinCellsOnly ==
    /\ \A i \in DOMAIN inventory :
          inventory[i].type = "COIN" =>
              getCellType(inventory[i].foundAt.x, inventory[i].foundAt.y)
                  = "COIN"
    /\ \A i, j \in DOMAIN inventory :
          (/\ inventory[i].type = "COIN"
           /\ inventory[j].type = "COIN"
           /\ inventory[i].foundAt = inventory[j].foundAt) => i = j

\* C24  Using an item removes exactly one artifact: a step of handleUseItem
\* makes the inventory one artifact shorter, and what remains is the
\* inventory without the one position of the item used.
C24_UseRemovesOne ==
    [][\A i \in DOMAIN inventory :
          (inventory[i].type \in {"FOOD", "TOOL"}
             /\ handleUseItem(inventory[i]))
          => /\ Len(inventory') = Len(inventory) - 1
             /\ \E k \in DOMAIN inventory :
                   inventory' = Without(inventory, {k})]_vars

\* C25  Once-per-cell rewards: a step grants XP, or heals at a FOOD cell,
\* only for a cell that the visited map has not recorded yet (and the step
\* records it, so a cell is rewarded at most once), and a cell once recorded
\* in the visited map is never removed from it.
C25_OncePerCell ==
    [][/\ xp' > xp =>
            /\ visited[currentKey] = Undefined
            /\ visited'[currentKey] # Undefined
       /\ (hp' > hp /\ view = "SCANNER") =>
            /\ visited[currentKey] = Undefined
            /\ visited'[currentKey] # Undefined
       /\ \A c \in DOMAIN visited :
            visited[c] # Undefined => visited'[c] # Undefined]_vars

\* Immunity by the clock: the expiry set by a revive or a stim-pack is ahead
ImmunityActive == immunityExpiry # Null /\ clock < immunityExpiry[1]

CoinWorth(inv) == SumValue(inv, IndicesOfType(inv, "COIN"))

\* C30  Exhaustion: a tick of the one-second global timer with hp at 0 or
\* less and a view other than START makes the view EXHAUSTION; the view then
\* leaves EXHAUSTION only through a revive, which sets hp to 50, charges 1000
\* to the balance (the coins sold with it credited), starts 60 seconds of
\* immunity and returns to SCANNER.
C30_Exhaustion ==
    [][/\ (GlobalTimer /\ hp <= 0 /\ view # "START") => view' = "EXHAUSTION"
       /\ (view = "EXHAUSTION" /\ view' # "EXHAUSTION") =>
              /\ view' = "SCANNER"
              /\ hp' = 50 * HpScale
              /\ balance' + CoinWorth(inventory')
                    = balance + CoinWorth(inventory) - 1000
              /\ immunityExpiry' = <<clock + 60>>]_vars
====
